---- MODULE Spec2Model ----
(***************************************************************************)
(* CheckpointTools: the command-line Argument class (argument.cpp) and the *)
(* column-aligned Table class (table.cpp).                                 *)
(*                                                                         *)
(* A string is a sequence of one-character strings, so that starts_with,   *)
(* find and substr are computed on the characters as the code does.        *)
(***************************************************************************)
EXTENDS Integers, Sequences, FiniteSets, TLC

VARIABLES
    argc, argv,          \* the argument vector handed to main
    i,                   \* the caller's loop index, passed by reference to value(i)
    pc,                  \* position in the documented parse loop
    arg,                 \* the Argument of the current iteration
    consIdx,             \* index the current Argument was constructed on
    valueCalls,          \* number of value(i) calls made on the current Argument
    iAtCall,             \* the caller's i just before the last value(i) call
    ret,                 \* the string returned by the last value(i) call
    argvReads,           \* indices of argv dereferenced by the last constructor
    parsed,              \* index -> value(i) calls, for every Argument constructed
    _rows,               \* Table: the rows, each a sequence of cell texts
    _numberOfColumns,    \* Table: the largest cell count of a row
    _columnAlignments,   \* Table: alignment per column
    _minColumnWidths,    \* Table: minimum width per column
    _maxColumnWidths,    \* Table: maximum width per column (0: none)
    _colorizer,          \* Table: the installed colorizer, "none" when empty
    out,                 \* the text the last print call wrote on its stream
    prevOut,             \* the text the print call before it wrote
    prints,              \* print calls since the table was last modified: 0, 1, 2 (or more)
    lastWidths,          \* the column widths the last print call computed
    colorCalls,          \* the calls the last print call made to the colorizer, in order
    printedBefore,       \* a print call was made before the last modification (kept
                         \* by the actions of SpecTableReprint only)
    cleared,             \* clear was called on the Table (kept by the actions of
                         \* SpecTableReprint only)
    added,               \* rows put in the Table since it was last cleared
    revision,            \* ckshow: which constructor of CkShowArgs main is built with
    ckPc,                \* ckshow: "idle", "parse", "run" or "exited"
    ckArgs,              \* ckshow: the members of the CkShowArgs under construction
    exitStatus,            \* ckshow: the exit code of the process, -1 while it runs
    exitBy,              \* ckshow: "fatal_error", "exit" or "return" (of main)
    trace,               \* ckshow: "stdout", "stderr", "disable_colors", in order
    fatalAt,             \* ckshow: the index the loop was on when fatal_error was called
    tokensSeen,          \* ckshow: the indices an iteration of the loop began on
    flag,                \* Colors::instance: the std::once_flag
    instancePtr,         \* Colors::instance: the object instancePtr owns, 0 when null
    heap,                \* Colors: object id -> the members of the object, or "raw"
                         \* while its constructor has not finished
    thr,                 \* Colors::instance: thread -> position in its call
    returned,            \* Colors::instance: thread -> what its last call returned
    calls,               \* Colors::instance: thread -> calls of instance() begun
    treeParent,          \* tensor tree: node -> its parent node, 0 for the root
    treeRank,            \* tensor tree: node -> the rank of its name among all nodes
    tensorOwner,         \* tensor tree: tensor -> the node that holds it
    treePc,              \* tensor tree: "idle", "built" or "filled"
    variant,             \* ckskeletonize: which main of main.cpp is built
    seed,                \* ckskeletonize: the seed of the generator
    skelPc,              \* ckskeletonize: "idle", "start", "drawn" or "done"
    index,               \* ckskeletonize: the index the distribution gave
    written              \* ckskeletonize: what the read of messages[index] gave

argVars == <<argc, argv, i, pc, arg, consIdx, valueCalls, iAtCall, ret, argvReads, parsed>>

tableVars == <<_rows, _numberOfColumns, _columnAlignments, _minColumnWidths,
               _maxColumnWidths, _colorizer>>

printVars == <<out, prevOut, prints, lastWidths, colorCalls>>

histVars == <<printedBefore, cleared>>

countVars == <<added>>

ckVars == <<revision, ckPc, ckArgs, exitStatus, exitBy, trace, fatalAt, tokensSeen>>

colVars == <<flag, instancePtr, heap, thr, returned, calls>>

treeVars == <<treeParent, treeRank, tensorOwner, treePc>>

skelVars == <<variant, seed, skelPc, index, written>>

restVars == <<colVars, treeVars, skelVars>>

vars == <<argVars, tableVars, printVars, countVars, histVars, ckVars, restVars>>

(***************************************************************************)
(* Bounds of the model                                                     *)
(***************************************************************************)
MaxArgs == 3
MaxChars == 5
MaxValueCalls == 2
MaxTableSize == 7
MaxRows == 2
MaxFormatSize == 3
MaxReprintSize == 2

\* the tokens of a ckshow command line
MaxCkArgs == 3

\* the threads calling Colors::instance(), and the calls each of them makes
MaxThreads == 3

MaxCalls == 2

\* the nodes under the root plus the tensors of a tensor tree
MaxTreeSize == 4

\* the seeds of the generator of ckskeletonize
MaxSeed == 3

(***************************************************************************)
(* Strings                                                                 *)
(***************************************************************************)
Chars == {"-", "=", "a"}

EmptyStr == <<>>

npos == -1

starts_with(s, p) ==
    /\ Len(s) >= Len(p)
    /\ SubSeq(s, 1, Len(p)) = p

\* find taken for rfind: the position of the last occurrence
find_last(s, ch) ==
    IF \E k \in 1..Len(s) : s[k] = ch
    THEN (CHOOSE k \in 1..Len(s) : s[k] = ch /\ \A j \in (k+1)..Len(s) : s[j] # ch) - 1
    ELSE npos

\* position (from 0) of the first occurrence of ch in s, npos when there is none
find(s, ch) ==
    IF \E k \in 1..Len(s) : s[k] = ch
    THEN (CHOOSE k \in 1..Len(s) : s[k] = ch /\ \A j \in 1..(k-1) : s[j] # ch) - 1
    ELSE npos

\* s.substr(pos, n), positions from 0
substr(s, pos, n) == SubSeq(s, pos + 1, pos + n)

\* s.substr(pos): the rest of s from position pos
substr_from(s, pos) == SubSeq(s, pos + 1, Len(s))

(***************************************************************************)
(* Argument vectors: argv[0] is the program name, argv[1..argc-1] are the  *)
(* tokens; every token is any string over Chars, the empty one included,   *)
(* and the tokens hold at most MaxChars characters together.               *)
(***************************************************************************)
ProgName == <<"a">>

StrsOfLen(n) == IF n = 0 THEN {EmptyStr} ELSE [1..n -> Chars]

\* the cut points that split a string of len characters into n tokens
Cuts(n, len) ==
    {c \in [1..(n - 1) -> 0..len] : \A k \in 1..(n - 2) : c[k] <= c[k + 1]}

\* token k of the n tokens that the cut points c split s into
TokenAt(s, c, n, k) ==
    SubSeq(s, (IF k = 1 THEN 0 ELSE c[k - 1]) + 1, IF k = n THEN Len(s) ELSE c[k])

(***************************************************************************)
(* Argument                                                                *)
(***************************************************************************)
NoArgument ==
    [_name |-> EmptyStr, _value |-> EmptyStr,
     _valueIsEmbedded |-> FALSE, _valueExistsAndNotConsumed |-> FALSE]

\* the look-ahead guard off by one: i+1 <= argc
has_next_off_by_one(idx, n) == (idx + 1) <= n

\* (i+1) < argc ? argv[i+1] : "" -- the guard of the look-ahead read
has_next(idx, n) == (idx + 1) < n

\* the indices of argv the constructor dereferences
ctor_reads(idx, n) == {idx} \cup (IF has_next(idx, n) THEN {idx + 1} ELSE {})

\* argv[k]; past the end the read is outside the array and yields no token
argv_at(av, n, k) == IF k \in 0..(n - 1) THEN av[k] ELSE EmptyStr

\* the constructor without its last step: a positional token keeps the next token as value
Argument_keeps_next(idx, n, av) ==
    LET curr == argv_at(av, n, idx)
        next == IF (idx + 1) < n THEN argv_at(av, n, idx + 1) ELSE EmptyStr
        value0 == IF ~starts_with(next, <<"-">>) THEN next ELSE EmptyStr
        it == find(curr, "=")
        split == starts_with(curr, <<"-", "-">>) /\ it # npos
    IN  [_name |-> IF split THEN substr(curr, 0, it) ELSE curr,
         _value |-> IF split THEN substr_from(curr, it + 1) ELSE value0,
         _valueIsEmbedded |-> split, _valueExistsAndNotConsumed |-> split]

\* Argument::Argument(int i, int argc, char* argv[])
Argument(idx, n, av) ==
    LET curr == argv_at(av, n, idx)
        next == IF has_next(idx, n) THEN argv_at(av, n, idx + 1) ELSE EmptyStr
        \* by default the value is the next non-option argument
        value0 == IF ~starts_with(next, <<"-">>) THEN next ELSE EmptyStr
        it == find(curr, "=")
        split == starts_with(curr, <<"-", "-">>) /\ it # npos
        name1 == IF split THEN substr(curr, 0, it) ELSE curr
        value1 == IF split THEN substr_from(curr, it + 1) ELSE value0
        \* a non-option argument has no value
        value2 == IF ~starts_with(curr, <<"-">>) THEN EmptyStr ELSE value1
    IN  [_name |-> name1, _value |-> value2,
         _valueIsEmbedded |-> split, _valueExistsAndNotConsumed |-> split]

\* String Argument::name()
name(a) == a._name

\* bool Argument::has_value()
has_value(a) == a._value # EmptyStr

\* bool Argument::was_value_consumed()
was_value_consumed(a) == ~a._valueExistsAndNotConsumed

\* bool Argument::is_option()
is_option(a) == starts_with(a._name, <<"-">>)

\* bool Argument::is(const char* name)
is(a, n) == a._name = n

\* bool Argument::is(const char* shortname, const char* longname)
is2(a, shortname, longname) == a._name = shortname \/ a._name = longname

\* value(i) advancing the index whether or not the value is embedded
value_index_always(a, idx) == idx + 1

\* value(i) never advancing the index
value_index_never(a, idx) == idx

\* the index after value(i): advanced when the value is not embedded
value_index(a, idx) == IF ~a._valueIsEmbedded THEN idx + 1 ELSE idx

\* value(i) leaving the consumed flag alone
value_arg_keeps_flag(a) == a

\* value(i) clearing the stored value when it consumes it
value_arg_clears_value(a) ==
    [a EXCEPT !._value = EmptyStr, !._valueExistsAndNotConsumed = FALSE]

\* the Argument after value(i): the value is flagged as consumed
value_arg(a) == [a EXCEPT !._valueExistsAndNotConsumed = FALSE]

\* the string value(i) returns
value_result(a) == a._value

(***************************************************************************)
(* The documented parse loop:                                              *)
(*   for (int i = 1; i < argc; ++i) { Argument arg(i, argc, argv); ... }   *)
(***************************************************************************)
\* the state before the first iteration, given the tokens
ArgStart(n, toks) ==
    /\ argc = n + 1
    /\ argv = [k \in 0..n |-> IF k = 0 THEN ProgName ELSE toks[k]]
    /\ i = 1
    /\ pc = "loop"
    /\ arg = NoArgument
    /\ consIdx = 0
    /\ valueCalls = 0
    /\ iAtCall = 0
    /\ ret = EmptyStr
    /\ argvReads = {}
    /\ parsed = <<>>

ArgInit ==
    \E n \in 0..MaxArgs, len \in 0..MaxChars :
       \E s \in StrsOfLen(len), c \in Cuts(n, len) :
          /\ n = 0 => len = 0
          /\ ArgStart(n, [k \in 1..n |-> TokenAt(s, c, n, k)])

\* a program started without arguments
NoArgs == ArgStart(0, <<>>)

\* Argument arg(i, argc, argv);
Construct ==
    /\ pc = "loop"
    /\ i < argc
    /\ arg' = Argument(i, argc, argv)
    /\ argvReads' = ctor_reads(i, argc)
    /\ consIdx' = i
    /\ valueCalls' = 0
    /\ parsed' = (i :> 0) @@ parsed
    /\ pc' = "body"
    /\ UNCHANGED <<argc, argv, i, iAtCall, ret>>
    /\ UNCHANGED <<tableVars, printVars, countVars, histVars, ckVars, restVars>>

\* ... = arg.value(i);
CallValue ==
    /\ pc = "body"
    /\ valueCalls < MaxValueCalls
    /\ ret' = value_result(arg)
    /\ iAtCall' = i
    /\ i' = value_index(arg, i)
    /\ arg' = value_arg(arg)
    /\ valueCalls' = valueCalls + 1
    /\ parsed' = [parsed EXCEPT ![consIdx] = @ + 1]
    /\ UNCHANGED <<argc, argv, pc, consIdx, argvReads>>
    /\ UNCHANGED <<tableVars, printVars, countVars, histVars, ckVars, restVars>>

\* the end of the loop body: ++i
NextIteration ==
    /\ pc = "body"
    /\ i' = i + 1
    /\ pc' = "loop"
    /\ UNCHANGED <<argc, argv, arg, consIdx, valueCalls, iAtCall, ret, argvReads, parsed>>
    /\ UNCHANGED <<tableVars, printVars, countVars, histVars, ckVars, restVars>>

\* the loop condition i < argc fails
LoopExit ==
    /\ pc = "loop"
    /\ i >= argc
    /\ pc' = "done"
    /\ UNCHANGED <<argc, argv, i, arg, consIdx, valueCalls, iAtCall, ret, argvReads, parsed>>
    /\ UNCHANGED <<tableVars, printVars, countVars, histVars, ckVars, restVars>>

(***************************************************************************)
(* Table                                                                   *)
(***************************************************************************)
Max(a, b) == IF a >= b THEN a ELSE b

Min(a, b) == IF a <= b THEN a ELSE b

Spaces(n) == [k \in 1..n |-> " "]

Separator == <<" ">>

Endl == <<"\n">>

\* the fill put before the text, as "{:>{}}" does
format_left_as_right(text, width) == Spaces(Max(0, width - Len(text))) \o text

\* std::format("{:<{}}", text, width): the text, then the fill
format_left(text, width) == text \o Spaces(Max(0, width - Len(text)))

\* std::format("{:>{}}", text, width): the fill, then the text
format_right(text, width) == Spaces(Max(0, width - Len(text))) \o text

\* the larger half of the fill put before the text
format_center_ceil(text, width) ==
    LET fill == Max(0, width - Len(text))
    IN  Spaces(fill - (fill \div 2)) \o text \o Spaces(fill \div 2)

\* std::format("{:^{}}", text, width): half of the fill (rounded down) before the text
format_center(text, width) ==
    LET fill == Max(0, width - Len(text))
    IN  Spaces(fill \div 2) \o text \o Spaces(fill - (fill \div 2))

\* the colorizer lambda of CkShow::list_tensors: a colour code per column, then reset
colorize(kind, column, text) ==
    CASE kind = "none" -> text
      [] kind = "ansi" /\ column = 0 -> <<"D">> \o text \o <<"R">>
      [] kind = "ansi" /\ column = 1 -> <<"E">> \o text \o <<"R">>
      [] kind = "ansi" /\ column = 2 -> <<"P">> \o text \o <<"R">>
      [] OTHER -> text

\* widths.resize(n, 0) when n is larger than the size of widths
resize_up(widths, n) ==
    IF n > Len(widths) THEN widths \o [k \in 1..(n - Len(widths)) |-> 0] ELSE widths

\* the inner loop of _calculate_column_widths over one row
widen_for_row(widths, row) ==
    LET sized == resize_up(widths, Len(row))
    IN  [c \in 1..Len(sized) |->
            IF c <= Len(row) THEN Max(sized[c], Len(row[c])) ELSE sized[c]]

RECURSIVE widen_for_rows(_, _)
\* the loop of _calculate_column_widths over all rows
widen_for_rows(widths, rows) ==
    IF rows = <<>> THEN widths
    ELSE widen_for_rows(widen_for_row(widths, Head(rows)), Tail(rows))

\* the clamp applied to a maximum of 0 too (maxWidth >= 0)
clamp_widths_zero(widths, maxWidths) ==
    LET arraySize == Min(Len(widths), Len(maxWidths))
    IN  [c \in 1..Len(widths) |->
            IF c <= arraySize /\ maxWidths[c] >= 0
            THEN Min(widths[c], maxWidths[c])
            ELSE widths[c]]

\* the clamp applied to every maximum but 0 (maxWidth != 0)
clamp_widths_negative(widths, maxWidths) ==
    LET arraySize == Min(Len(widths), Len(maxWidths))
    IN  [c \in 1..Len(widths) |->
            IF c <= arraySize /\ maxWidths[c] # 0
            THEN Min(widths[c], maxWidths[c])
            ELSE widths[c]]

\* the last loop of _calculate_column_widths: no width exceeds its maximum
clamp_widths(widths, maxWidths) ==
    LET arraySize == Min(Len(widths), Len(maxWidths))
    IN  [c \in 1..Len(widths) |->
            IF c <= arraySize /\ maxWidths[c] > 0
            THEN Min(widths[c], maxWidths[c])
            ELSE widths[c]]

\* Table::_calculate_column_widths; the code reads the member _rows, which is
\* what print passes as rows
_calculate_column_widths(rows, minWidths, maxWidths) ==
    IF rows = <<>> THEN <<>>
    ELSE clamp_widths(widen_for_rows(minWidths, rows), maxWidths)

\* the width _print_row uses for the cell of column c (from 0)
cell_width(columnWidths, c) == IF c < Len(columnWidths) THEN columnWidths[c + 1] ELSE 0

\* the alignment _print_row uses for the cell of column c (from 0)
cell_align(columnAlignments, c) ==
    IF c < Len(columnAlignments) THEN columnAlignments[c + 1] ELSE "LEFT"

\* the cell cut to the width of its column before it is aligned
align_cell_cut(text, c, columnWidths, columnAlignments) ==
    LET width == cell_width(columnWidths, c)
        align == cell_align(columnAlignments, c)
        cut == SubSeq(text, 1, Min(Len(text), width))
    IN  CASE width <= 0 -> text
          [] align = "LEFT" -> format_left(cut, width)
          [] align = "RIGHT" -> format_right(cut, width)
          [] OTHER -> format_center(cut, width)

\* the text of the cell of column c (from 0) once _print_row has aligned it
align_cell(text, c, columnWidths, columnAlignments) ==
    LET width == cell_width(columnWidths, c)
        align == cell_align(columnAlignments, c)
    IN  CASE width <= 0 -> text
          [] align = "LEFT" -> format_left(text, width)
          [] align = "RIGHT" -> format_right(text, width)
          [] OTHER -> format_center(text, width)

\* the cell colorized first and aligned afterwards
print_cell_color_first(text, c, columnWidths, columnAlignments, kind) ==
    align_cell(colorize(kind, c, text), c, columnWidths, columnAlignments)

\* the text _print_row writes for the cell of column c (from 0)
print_cell(text, c, columnWidths, columnAlignments, kind) ==
    colorize(kind, c, align_cell(text, c, columnWidths, columnAlignments))

RECURSIVE row_colorizer_calls(_, _, _, _)
\* the _colorizer(i, text) calls of _print_row from the cell of column c (from 0) on
row_colorizer_calls(row, c, columnWidths, columnAlignments) ==
    IF c >= Len(row) THEN <<>>
    ELSE <<[column |-> c,
            text |-> align_cell(row[c + 1], c, columnWidths, columnAlignments)]>>
         \o row_colorizer_calls(row, c + 1, columnWidths, columnAlignments)

RECURSIVE rows_colorizer_calls(_, _, _)
\* the _colorizer(i, text) calls of the loop of Table::print
rows_colorizer_calls(rows, columnWidths, columnAlignments) ==
    IF rows = <<>> THEN <<>>
    ELSE row_colorizer_calls(Head(rows), 0, columnWidths, columnAlignments)
         \o rows_colorizer_calls(Tail(rows), columnWidths, columnAlignments)

\* the calls Table::print makes to the colorizer: none when no colorizer is installed
print_colorizer_calls(rows, columnAlignments, minWidths, maxWidths, kind) ==
    IF rows = <<>> \/ kind = "none" THEN <<>>
    ELSE rows_colorizer_calls(rows, _calculate_column_widths(rows, minWidths, maxWidths),
                              columnAlignments)

RECURSIVE print_cells_trim_last(_, _, _, _, _)
\* the last cell of a row written without its fill
print_cells_trim_last(row, c, columnWidths, columnAlignments, kind) ==
    IF c >= Len(row) THEN <<>>
    ELSE (IF c > 0 THEN Separator ELSE <<>>)
         \o (IF c + 1 = Len(row)
             THEN colorize(kind, c, row[c + 1])
             ELSE print_cell(row[c + 1], c, columnWidths, columnAlignments, kind))
         \o print_cells_trim_last(row, c + 1, columnWidths, columnAlignments, kind)

RECURSIVE print_cells_fill_missing(_, _, _, _, _)
\* a row written over all the columns of the table, blank cells for the missing ones
print_cells_fill_missing(row, c, columnWidths, columnAlignments, kind) ==
    IF c >= Max(Len(row), Len(columnWidths)) THEN <<>>
    ELSE (IF c > 0 THEN Separator ELSE <<>>)
         \o print_cell(IF c < Len(row) THEN row[c + 1] ELSE EmptyStr,
                       c, columnWidths, columnAlignments, kind)
         \o print_cells_fill_missing(row, c + 1, columnWidths, columnAlignments, kind)

RECURSIVE print_cells(_, _, _, _, _)
\* the loop of _print_row from the cell of column c (from 0) on
print_cells(row, c, columnWidths, columnAlignments, kind) ==
    IF c >= Len(row) THEN <<>>
    ELSE (IF c > 0 THEN Separator ELSE <<>>)
         \o print_cell(row[c + 1], c, columnWidths, columnAlignments, kind)
         \o print_cells(row, c + 1, columnWidths, columnAlignments, kind)

\* Table::_print_row
_print_row(row, columnWidths, columnAlignments, kind) ==
    print_cells(row, 0, columnWidths, columnAlignments, kind) \o Endl

RECURSIVE print_rows_reversed(_, _, _, _)
\* the loop of print running from the last row to the first
print_rows_reversed(rows, columnWidths, columnAlignments, kind) ==
    IF rows = <<>> THEN <<>>
    ELSE print_rows_reversed(Tail(rows), columnWidths, columnAlignments, kind)
         \o _print_row(Head(rows), columnWidths, columnAlignments, kind)

RECURSIVE print_rows(_, _, _, _)
\* the loop of Table::print over the rows
print_rows(rows, columnWidths, columnAlignments, kind) ==
    IF rows = <<>> THEN <<>>
    ELSE _print_row(Head(rows), columnWidths, columnAlignments, kind)
         \o print_rows(Tail(rows), columnWidths, columnAlignments, kind)

\* the text Table::print writes
print_text(rows, columnAlignments, minWidths, maxWidths, kind) ==
    IF rows = <<>> THEN <<>>
    ELSE print_rows(rows, _calculate_column_widths(rows, minWidths, maxWidths),
                    columnAlignments, kind)

RECURSIVE TotalCells(_)
TotalCells(rows) == IF rows = <<>> THEN 0 ELSE Len(Head(rows)) + TotalCells(Tail(rows))

\* the rows of at most n cells with texts of the set texts
RowsOf(texts, n) == UNION {IF k = 0 THEN {<<>>} ELSE [1..k -> texts] : k \in 0..n}

\* the lists of at most n entries of the set values
ListsOf(values, n) == UNION {IF k = 0 THEN {<<>>} ELSE [1..k -> values] : k \in 0..n}

\* Table() = default
TableInit ==
    /\ _rows = <<>>
    /\ _numberOfColumns = 0
    /\ _columnAlignments = <<>>
    /\ _minColumnWidths = <<>>
    /\ _maxColumnWidths = <<>>
    /\ _colorizer = "none"
    /\ out = <<>>
    /\ prevOut = <<>>
    /\ prints = 0
    /\ lastWidths = <<>>
    /\ colorCalls = <<>>
    /\ printedBefore = FALSE
    /\ cleared = FALSE
    /\ added = 0

RECURSIVE max_row_size(_, _)
\* the loop of Table::Table(const Rows&): the largest cell count, starting from n
max_row_size(n, rows) ==
    IF rows = <<>> THEN n ELSE max_row_size(Max(n, Len(Head(rows))), Tail(rows))

\* Table::Table(const Rows& rows)
Table(rows) ==
    /\ _rows = rows
    /\ _numberOfColumns = max_row_size(0, rows)
    /\ _columnAlignments = <<>>
    /\ _minColumnWidths = <<>>
    /\ _maxColumnWidths = <<>>
    /\ _colorizer = "none"
    /\ out = <<>>
    /\ prevOut = <<>>
    /\ prints = 0
    /\ lastWidths = <<>>
    /\ colorCalls = <<>>
    /\ printedBefore = FALSE
    /\ cleared = FALSE
    /\ added = Len(rows)

\* size_t Table::number_of_rows()
number_of_rows == Len(_rows)

\* size_t Table::number_of_columns()
number_of_columns == _numberOfColumns

\* bool Table::empty()
empty == _rows = <<>>

\* nothing was printed since the last modification
Modified ==
    /\ out' = <<>>
    /\ prevOut' = <<>>
    /\ prints' = 0
    /\ lastWidths' = <<>>
    /\ colorCalls' = <<>>

\* add_row keeping the cell count of the last row only
add_row_last_size(row) ==
    /\ _rows' = Append(_rows, SubSeq(row, 1, Len(row)))
    /\ _numberOfColumns' = Len(row)
    /\ added' = added + 1
    /\ Modified
    /\ UNCHANGED <<_columnAlignments, _minColumnWidths, _maxColumnWidths, _colorizer>>
    /\ UNCHANGED <<argVars, ckVars, restVars>>

\* Table::add_row, both overloads: the row is copied cell by cell at the end of _rows
add_row(row) ==
    /\ _rows' = Append(_rows, SubSeq(row, 1, Len(row)))
    /\ _numberOfColumns' = Max(_numberOfColumns, Len(row))
    /\ added' = added + 1
    /\ Modified
    /\ UNCHANGED <<_columnAlignments, _minColumnWidths, _maxColumnWidths, _colorizer>>
    /\ UNCHANGED <<argVars, ckVars, restVars>>

\* clear resetting the configuration with the rows
clear_all ==
    /\ _rows' = <<>>
    /\ _numberOfColumns' = 0
    /\ added' = 0
    /\ Modified
    /\ _columnAlignments' = <<>>
    /\ _minColumnWidths' = <<>>
    /\ _maxColumnWidths' = <<>>
    /\ _colorizer' = "none"
    /\ UNCHANGED <<argVars, ckVars, restVars>>

\* Table::clear
clear ==
    /\ _rows' = <<>>
    /\ _numberOfColumns' = 0
    /\ added' = 0
    /\ Modified
    /\ UNCHANGED <<_columnAlignments, _minColumnWidths, _maxColumnWidths, _colorizer>>
    /\ UNCHANGED <<argVars, ckVars, restVars>>

\* Table::set_alignments
set_alignments(alignments) ==
    /\ _columnAlignments' = SubSeq(alignments, 1, Len(alignments))
    /\ Modified
    /\ UNCHANGED <<_rows, _numberOfColumns, _minColumnWidths, _maxColumnWidths, _colorizer>>
    /\ UNCHANGED <<argVars, countVars, ckVars, restVars>>

\* Table::set_min_widths
set_min_widths(minWidths) ==
    /\ _minColumnWidths' = SubSeq(minWidths, 1, Len(minWidths))
    /\ Modified
    /\ UNCHANGED <<_rows, _numberOfColumns, _columnAlignments, _maxColumnWidths, _colorizer>>
    /\ UNCHANGED <<argVars, countVars, ckVars, restVars>>

\* Table::set_max_widths
set_max_widths(maxWidths) ==
    /\ _maxColumnWidths' = SubSeq(maxWidths, 1, Len(maxWidths))
    /\ Modified
    /\ UNCHANGED <<_rows, _numberOfColumns, _columnAlignments, _minColumnWidths, _colorizer>>
    /\ UNCHANGED <<argVars, countVars, ckVars, restVars>>

\* Table::set_colorizer
set_colorizer(kind) ==
    /\ _colorizer' = kind
    /\ Modified
    /\ UNCHANGED <<_rows, _numberOfColumns, _columnAlignments, _minColumnWidths, _maxColumnWidths>>
    /\ UNCHANGED <<argVars, countVars, ckVars, restVars>>

\* print draining the rows it has written
print_flush ==
    /\ out' = print_text(_rows, _columnAlignments, _minColumnWidths, _maxColumnWidths,
                         _colorizer)
    /\ prevOut' = out
    /\ prints' = Min(prints + 1, 2)
    /\ lastWidths' = _calculate_column_widths(_rows, _minColumnWidths, _maxColumnWidths)
    /\ colorCalls' = print_colorizer_calls(_rows, _columnAlignments, _minColumnWidths,
                                           _maxColumnWidths, _colorizer)
    /\ _rows' = <<>>
    /\ UNCHANGED <<_numberOfColumns, _columnAlignments, _minColumnWidths,
                   _maxColumnWidths, _colorizer>>
    /\ UNCHANGED <<argVars, countVars, ckVars, restVars>>

\* the rows the widths were computed for by an earlier print: all but the last row
rows_at_earlier_print(rows) ==
    IF printedBefore /\ Len(rows) >= 2 THEN SubSeq(rows, 1, Len(rows) - 1) ELSE rows

\* print keeping the column widths of an earlier print call
print_cached ==
    /\ out' = IF _rows = <<>> THEN <<>>
              ELSE print_rows(_rows,
                              _calculate_column_widths(rows_at_earlier_print(_rows),
                                                       _minColumnWidths, _maxColumnWidths),
                              _columnAlignments, _colorizer)
    /\ prevOut' = out
    /\ prints' = Min(prints + 1, 2)
    /\ lastWidths' = _calculate_column_widths(rows_at_earlier_print(_rows),
                                              _minColumnWidths, _maxColumnWidths)
    /\ colorCalls' = print_colorizer_calls(_rows, _columnAlignments, _minColumnWidths,
                                           _maxColumnWidths, _colorizer)
    /\ UNCHANGED tableVars
    /\ UNCHANGED <<argVars, countVars, ckVars, restVars>>

\* Table::print
print ==
    /\ out' = print_text(_rows, _columnAlignments, _minColumnWidths, _maxColumnWidths,
                         _colorizer)
    /\ prevOut' = out
    /\ prints' = Min(prints + 1, 2)
    /\ lastWidths' = _calculate_column_widths(_rows, _minColumnWidths, _maxColumnWidths)
    /\ colorCalls' = print_colorizer_calls(_rows, _columnAlignments, _minColumnWidths,
                                           _maxColumnWidths, _colorizer)
    /\ UNCHANGED tableVars
    /\ UNCHANGED <<argVars, countVars, ckVars, restVars>>

(***************************************************************************)
(* A Table with its default format: rows of the texts of the scenario      *)
(***************************************************************************)
ScenarioTexts ==
    {<<"a">>, <<"b", "b">>, <<"c", "c", "c">>, <<"d", "d", "d", "d">>, <<"e">>}

\* the rows and the cells the Table holds
TableSize == Len(_rows) + TotalCells(_rows)

\* the texts of the rows a Table is constructed with
CtorTexts == {<<"a">>, <<"b", "b">>}

\* the initial rows of Table(rows): at most MaxRows rows of at most MaxRows cells
CtorRows ==
    {rows \in ListsOf(RowsOf(CtorTexts, MaxRows), MaxRows) :
        Len(rows) + TotalCells(rows) <= MaxTableSize}

AddScenarioRow ==
    /\ \E row \in RowsOf(ScenarioTexts, MaxTableSize - TableSize - 1) : add_row(row)
    /\ UNCHANGED histVars

ClearTable == _rows # <<>> /\ clear /\ UNCHANGED histVars

PrintTable == print /\ UNCHANGED histVars

(***************************************************************************)
(* A Table with a format: alignments, widths and a colorizer               *)
(***************************************************************************)
FormatTexts == {EmptyStr, <<"a">>, <<"b", "b", "b">>}

Alignments == {"LEFT", "RIGHT", "CENTER"}

WidthChoices == {-1, 0, 2, 4}

Colorizers == {"none", "ansi"}

\* the cells and the format entries the Table holds
FormatSize ==
    TotalCells(_rows) + Len(_columnAlignments) + Len(_minColumnWidths) + Len(_maxColumnWidths)

AddFormatRow ==
    /\ Len(_rows) < MaxRows
    /\ \E row \in RowsOf(FormatTexts, MaxFormatSize - FormatSize) : add_row(row)
    /\ UNCHANGED histVars

SetAlignments ==
    /\ \E l \in ListsOf(Alignments, MaxFormatSize - FormatSize + Len(_columnAlignments)) :
          set_alignments(l)
    /\ UNCHANGED histVars

SetMinWidths ==
    /\ \E l \in ListsOf(WidthChoices, MaxFormatSize - FormatSize + Len(_minColumnWidths)) :
          set_min_widths(l)
    /\ UNCHANGED histVars

SetMaxWidths ==
    /\ \E l \in ListsOf(WidthChoices, MaxFormatSize - FormatSize + Len(_maxColumnWidths)) :
          set_max_widths(l)
    /\ UNCHANGED histVars

SetColorizer == (\E kind \in Colorizers : set_colorizer(kind)) /\ UNCHANGED histVars

(***************************************************************************)
(* A Table printed, modified and printed again: add_row, clear, set_* and  *)
(* print in any order, remembering that a print call came before           *)
(***************************************************************************)
\* a modification of the Table comes after a print call, or after one that did
Remember == printedBefore' = (printedBefore \/ prints >= 1)

ReprintAddRow ==
    /\ Len(_rows) < MaxRows
    /\ \E row \in RowsOf(FormatTexts, MaxReprintSize - FormatSize) : add_row(row)
    /\ Remember
    /\ UNCHANGED cleared

ReprintClear == _rows # <<>> /\ clear /\ Remember /\ cleared' = TRUE

ReprintSetAlignments ==
    /\ \E l \in ListsOf(Alignments, MaxReprintSize - FormatSize + Len(_columnAlignments)) :
          set_alignments(l)
    /\ Remember
    /\ UNCHANGED cleared

ReprintSetMinWidths ==
    /\ \E l \in ListsOf(WidthChoices, MaxReprintSize - FormatSize + Len(_minColumnWidths)) :
          set_min_widths(l)
    /\ Remember
    /\ UNCHANGED cleared

ReprintSetMaxWidths ==
    /\ \E l \in ListsOf(WidthChoices, MaxReprintSize - FormatSize + Len(_maxColumnWidths)) :
          set_max_widths(l)
    /\ Remember
    /\ UNCHANGED cleared

ReprintSetColorizer == (\E kind \in Colorizers : set_colorizer(kind)) /\ Remember /\ UNCHANGED cleared

Reprint == print /\ UNCHANGED histVars

(***************************************************************************)
(* ckshow: main constructs CkShowArgs from argv and runs CkShow on it      *)
(***************************************************************************)
\* the option names the constructor of CkShowArgs compares arg with
Opt ==
    [n |-> <<"-", "n">>,
     name |-> <<"-", "-", "n", "a", "m", "e">>,
     m |-> <<"-", "m">>,
     metadata |-> <<"-", "-", "m", "e", "t", "a", "d", "a", "t", "a">>,
     thumbnail |-> <<"-", "-", "t", "h", "u", "m", "b", "n", "a", "i", "l">>,
     p |-> <<"-", "p">>,
     prefix |-> <<"-", "-", "p", "r", "e", "f", "i", "x">>,
     d |-> <<"-", "d">>,
     depth |-> <<"-", "-", "d", "e", "p", "t", "h">>,
     u |-> <<"-", "u">>,
     human |-> <<"-", "-", "h", "u", "m", "a", "n">>,
     b |-> <<"-", "b">>,
     basic |-> <<"-", "-", "b", "a", "s", "i", "c">>,
     j |-> <<"-", "j">>,
     json |-> <<"-", "-", "j", "s", "o", "n">>,
     nc |-> <<"-", "-", "n", "c">>,
     no_color |-> <<"-", "-", "n", "o", "-", "c", "o", "l", "o", "r">>,
     color |-> <<"-", "-", "c", "o", "l", "o", "r">>,
     h |-> <<"-", "h">>,
     help |-> <<"-", "-", "h", "e", "l", "p">>,
     v |-> <<"-", "v">>,
     version |-> <<"-", "-", "v", "e", "r", "s", "i", "o", "n">>]

\* the values of when_color that CkShow::run compares with
When ==
    [auto |-> <<"a", "u", "t", "o">>,
     tty |-> <<"t", "t", "y">>,
     if_tty |-> <<"i", "f", "-", "t", "t", "y">>,
     never |-> <<"n", "e", "v", "e", "r">>,
     no |-> <<"n", "o">>,
     none |-> <<"n", "o", "n", "e">>]

\* CkShowArgs: the default values of the members
DefaultArgs ==
    [command |-> "LIST_TENSORS", filename |-> EmptyStr, name |-> EmptyStr,
     prefix |-> EmptyStr, when_color |-> When.auto, depth |-> 0, format |-> "HUMAN",
     help |-> FALSE, version |-> FALSE]

Digits == <<"0", "1", "2", "3", "4", "5", "6", "7", "8", "9">>

IsDigit(ch) == \E d \in 1..10 : Digits[d] = ch

DigitValue(ch) == (CHOOSE d \in 1..10 : Digits[d] = ch) - 1

\* the number of leading digits of str
LeadingDigits(str) ==
    IF \E k \in 1..Len(str) : ~IsDigit(str[k])
    THEN (CHOOSE k \in 1..Len(str) : ~IsDigit(str[k]) /\ \A j \in 1..(k - 1) : IsDigit(str[j])) - 1
    ELSE Len(str)

RECURSIVE DecimalValue(_)
DecimalValue(digits) ==
    IF digits = <<>> THEN 0
    ELSE 10 * DecimalValue(SubSeq(digits, 1, Len(digits) - 1)) + DigitValue(digits[Len(digits)])

\* to_integer(str, defaultValue = 0): std::from_chars on the leading number of str
to_integer(str) ==
    LET negative == starts_with(str, <<"-">>)
        body == IF negative THEN Tail(str) ELSE str
        n == LeadingDigits(body)
    IN  IF n = 0 THEN 0
        ELSE (IF negative THEN -1 ELSE 1) * DecimalValue(SubSeq(body, 1, n))

\* Args::parse_option: the pair (name, value) of the token at index idx; an embedded
\* value keeps its leading '='
parse_option(idx, n, av) ==
    LET curr == av[idx]
        value0 == IF (idx + 1) < n /\ ~starts_with(av[idx + 1], <<"-">>)
                  THEN av[idx + 1] ELSE EmptyStr
        it == find(curr, "=")
    IN  IF starts_with(curr, <<"-", "-">>)
        THEN IF it # npos
             THEN [first |-> substr(curr, 0, it), second |-> substr_from(curr, it)]
             ELSE [first |-> curr, second |-> value0]
        ELSE [first |-> curr, second |-> EmptyStr]

\* the read of argv[i + 1] made whether or not a next token exists
parse_option_reads_unguarded(idx, n) == {idx, idx + 1}

\* the indices at which one iteration dereferences argv: argv[i], and argv[i + 1]
\* behind the test (i+1) < argc
parse_option_reads(idx, n) == {idx} \cup (IF (idx + 1) < n THEN {idx + 1} ELSE {})

\* Args::get_name
get_name(option, idx) == option.first

\* Args::get_value: the value, the index after the call and the option after the call
get_value(option, idx) ==
    LET embedded == starts_with(option.second, <<"=">>)
    IN  [value |-> IF embedded THEN substr_from(option.second, 1) ELSE option.second,
         i |-> IF embedded THEN idx ELSE idx + 1,
         option |-> [option EXCEPT !.second = EmptyStr]]

\* the options whose branch calls get_value
TakesValue(argName) == argName \in {Opt.n, Opt.name, Opt.p, Opt.prefix, Opt.d, Opt.depth, Opt.color}

\* the options the if-chain of the constructor knows
IsKnown(argName) ==
    argName \in {Opt.n, Opt.name, Opt.m, Opt.metadata, Opt.thumbnail, Opt.p, Opt.prefix, Opt.d,
             Opt.depth, Opt.u, Opt.human, Opt.b, Opt.basic, Opt.j, Opt.json, Opt.nc, Opt.no_color,
             Opt.color, Opt.h, Opt.help, Opt.v, Opt.version}

\* the assignment made by the branch of the if-chain that arg selects
assign_option(a, argName, value) ==
    CASE argName \in {Opt.n, Opt.name} -> [a EXCEPT !.name = value]
      [] argName \in {Opt.m, Opt.metadata} -> [a EXCEPT !.command = "LIST_METADATA"]
      [] argName = Opt.thumbnail -> [a EXCEPT !.command = "EXTRACT_THUMBNAIL"]
      [] argName \in {Opt.p, Opt.prefix} -> [a EXCEPT !.prefix = value]
      [] argName \in {Opt.d, Opt.depth} -> [a EXCEPT !.depth = to_integer(value)]
      [] argName \in {Opt.u, Opt.human} -> [a EXCEPT !.format = "HUMAN"]
      [] argName \in {Opt.b, Opt.basic} -> [a EXCEPT !.format = "PLAIN"]
      [] argName \in {Opt.j, Opt.json} -> [a EXCEPT !.format = "JSON"]
      [] argName \in {Opt.nc, Opt.no_color} -> [a EXCEPT !.when_color = When.never]
      [] argName = Opt.color -> [a EXCEPT !.when_color = value]
      [] argName \in {Opt.h, Opt.help} -> [a EXCEPT !.help = TRUE]
      [] argName \in {Opt.v, Opt.version} -> [a EXCEPT !.version = TRUE]
      [] OTHER -> a

\* one iteration of the loop of CkShowArgs::CkShowArgs (ckshow_args.cpp): the members,
\* the index before ++i, and the fatal error raised, if any
parse_token(a, idx, n, av) ==
    LET option == parse_option(idx, n, av)
        argName == get_name(option, idx)
        got == get_value(option, idx)
        option1 == IF TakesValue(argName) THEN got.option ELSE option
        i1 == IF TakesValue(argName) THEN got.i ELSE idx
    IN  IF starts_with(argName, <<"-">>)
        THEN IF ~IsKnown(argName)
             THEN [args |-> a, i |-> idx, fatal |-> "Unknown argument"]
             ELSE IF starts_with(option1.second, <<"=">>)
                  THEN [args |-> assign_option(a, argName, got.value), i |-> i1,
                        fatal |-> "no expects a value"]
                  ELSE [args |-> assign_option(a, argName, got.value), i |-> i1,
                        fatal |-> "none"]
        ELSE IF a.filename = EmptyStr
             THEN [args |-> [a EXCEPT !.filename = argName], i |-> idx, fatal |-> "none"]
             ELSE [args |-> a, i |-> idx, fatal |-> "Too many files specified"]

\* the options the earlier revision of the constructor knows: no --color
IsKnownNextarg(argName) == IsKnown(argName) /\ argName # Opt.color

\* one iteration of the loop of the earlier revision of CkShowArgs::CkShowArgs, which
\* takes the value from nextarg and compares the whole token with the option names;
\* its use_color = UseColor::NEVER is when_color = "never" here
parse_token_nextarg(a, idx, n, av) ==
    LET argName == av[idx]
        nextarg == IF (idx + 1) < n /\ ~starts_with(av[idx + 1], <<"-">>)
                   THEN av[idx + 1] ELSE EmptyStr
        takes == argName \in {Opt.n, Opt.name, Opt.p, Opt.prefix, Opt.d, Opt.depth}
    IN  IF starts_with(argName, <<"-">>)
        THEN IF ~IsKnownNextarg(argName)
             THEN [args |-> a, i |-> idx, fatal |-> "Unknown argument"]
             ELSE [args |-> assign_option(a, argName, nextarg),
                   i |-> IF takes THEN idx + 1 ELSE idx, fatal |-> "none"]
        ELSE IF a.filename = EmptyStr
             THEN [args |-> [a EXCEPT !.filename = argName], i |-> idx, fatal |-> "none"]
             ELSE [args |-> a, i |-> idx, fatal |-> "Too many files specified"]

\* the default of the exitCode parameter of Messages::fatal_error
DefaultExitCode == 1

\* fatal_error passing its exitCode on to std::exit as it is
fatal_exit_code_unchecked(exitCode) == exitCode

\* Messages::fatal_error: std::exit( exitCode>=1 ? exitCode : 1 )
fatal_exit_code(exitCode) == IF exitCode >= 1 THEN exitCode ELSE 1

\* Messages::fatal_error: the message and every info message go to std::cerr, then
\* the process exits
fatal_error(infoMessages, exitCode) ==
    [events |-> <<"stderr">> \o [k \in 1..infoMessages |-> "stderr"],
     code |-> fatal_exit_code(exitCode), by |-> "fatal_error"]

\* tin::ReadError, as CkShow::fatal_read_error tells the values apart
ReadErrors ==
    {"None", "FileNotFound", "InvalidFormat", "UnsupportedVersion", "HeaderTooLarge",
     "MemoryAllocationFailed", "MissingData", "Other"}

\* CkShow::fatal_read_error: every case calls fatal_error with a message only
fatal_read_error(readError) == fatal_error(0, DefaultExitCode)

\* the start of CkShow::run: the calls of Colors::disable_colors
run_colors(a, tty) ==
    IF a.when_color \in {When.auto, When.tty, When.if_tty}
    THEN IF ~tty THEN <<"disable_colors">> ELSE <<>>
    ELSE IF a.when_color \in {When.never, When.no, When.none}
         THEN <<"disable_colors">> ELSE <<>>

\* CkShow::run after the colors: what is written, and how the process ends
run_command(a, readError) ==
    IF a.help THEN [events |-> <<"stdout">>, code |-> 0, by |-> "return"]
    ELSE IF a.version THEN [events |-> <<"stdout">>, code |-> 0, by |-> "return"]
    ELSE IF a.filename = EmptyStr THEN fatal_error(1, DefaultExitCode)
    ELSE IF readError # "None" THEN fatal_read_error(readError)
    ELSE [events |-> <<"stdout">>, code |-> 0, by |-> "return"]

\* run writing the help before it sets the colors
run_colors_last(a, tty, readError) ==
    LET r == run_command(a, readError)
    IN  [r EXCEPT !.events = @ \o run_colors(a, tty)]

\* CkShow::run, and main returning its result
run(a, tty, readError) ==
    LET r == run_command(a, readError)
    IN  [r EXCEPT !.events = run_colors(a, tty) \o @]

\* the tokens of a ckshow command line: value options in the long, the short and the
\* embedded form, options taking no value, an unknown option, a file name, an empty token
CkTokens ==
    {<<"-", "-", "n", "a", "m", "e">>,
     <<"-", "n">>,
     <<"-", "-", "n", "a", "m", "e", "=", "a">>,
     <<"-", "-", "m", "e", "t", "a", "d", "a", "t", "a">>,
     <<"-", "-", "m", "e", "t", "a", "d", "a", "t", "a", "=", "a">>,
     <<"-", "-", "h", "e", "l", "p">>,
     <<"-", "v">>,
     <<"-", "-", "n", "c">>,
     <<"-", "-", "x">>,
     <<"a">>,
     EmptyStr}

\* the constructions of CkShowArgs main can be built with: "args" is the constructor of
\* ckshow_args.cpp, "nextarg" the earlier one, which returns to main
Revisions == {"args", "nextarg"}

\* main(argc, argv) is entered: the constructor is about to run its loop
CkStart(n, toks, rev) ==
    /\ argc = n + 1
    /\ argv = [k \in 0..n |-> IF k = 0 THEN ProgName ELSE toks[k]]
    /\ i = 1
    /\ pc = "done"
    /\ arg = NoArgument
    /\ consIdx = 0
    /\ valueCalls = 0
    /\ iAtCall = 0
    /\ ret = EmptyStr
    /\ argvReads = {}
    /\ parsed = <<>>
    /\ revision = rev
    /\ ckPc = "parse"
    /\ ckArgs = DefaultArgs
    /\ exitStatus = -1
    /\ exitBy = "none"
    /\ trace = <<>>
    /\ fatalAt = 0
    /\ tokensSeen = {}

\* no ckshow process
CkIdle ==
    /\ revision = "args"
    /\ ckPc = "idle"
    /\ ckArgs = DefaultArgs
    /\ exitStatus = -1
    /\ exitBy = "none"
    /\ trace = <<>>
    /\ fatalAt = 0
    /\ tokensSeen = {}

CkInit ==
    \E n \in 0..MaxCkArgs, rev \in Revisions :
       \E toks \in [1..n -> CkTokens] : CkStart(n, toks, rev)

\* one iteration of for( int i=1 ; i < argc ; ++i ) in the constructor
CkParseToken ==
    /\ ckPc = "parse"
    /\ i < argc
    /\ LET r == IF revision = "args" THEN parse_token(ckArgs, i, argc, argv)
                ELSE parse_token_nextarg(ckArgs, i, argc, argv)
           f == fatal_error(1, DefaultExitCode)
       IN  /\ tokensSeen' = tokensSeen \cup {i}
           /\ ckArgs' = r.args
           /\ argvReads' = argvReads \cup parse_option_reads(i, argc)
           /\ IF r.fatal # "none"
              THEN /\ i' = r.i
                   /\ fatalAt' = i
                   /\ trace' = trace \o f.events
                   /\ exitStatus' = f.code
                   /\ exitBy' = f.by
                   /\ ckPc' = "exited"
              ELSE /\ i' = r.i + 1
                   /\ UNCHANGED <<fatalAt, trace, exitStatus, exitBy, ckPc>>
    /\ UNCHANGED <<argc, argv, pc, arg, consIdx, valueCalls, iAtCall, ret, parsed>>
    /\ UNCHANGED revision
    /\ UNCHANGED <<tableVars, printVars, countVars, histVars, restVars>>

\* after the loop of the constructor of ckshow_args.cpp:
\* std::cout << (*this) << std::endl; std::exit( 0 );
CkParseExit ==
    /\ ckPc = "parse"
    /\ i >= argc
    /\ revision = "args"
    /\ trace' = trace \o <<"stdout">>
    /\ exitStatus' = 0
    /\ exitBy' = "exit"
    /\ ckPc' = "exited"
    /\ UNCHANGED <<argVars, revision, ckArgs, fatalAt, tokensSeen>>
    /\ UNCHANGED <<tableVars, printVars, countVars, histVars, restVars>>

\* after the loop of the earlier constructor: it returns and main calls run
CkParseReturn ==
    /\ ckPc = "parse"
    /\ i >= argc
    /\ revision = "nextarg"
    /\ ckPc' = "run"
    /\ UNCHANGED <<argVars, revision, ckArgs, exitStatus, exitBy, trace, fatalAt, tokensSeen>>
    /\ UNCHANGED <<tableVars, printVars, countVars, histVars, restVars>>

\* return ckshow.run(); with what is_terminal_output and TensorMap::from_file answer
CkRun ==
    /\ ckPc = "run"
    /\ \E tty \in BOOLEAN, readError \in ReadErrors :
          LET r == run(ckArgs, tty, readError)
          IN  /\ trace' = trace \o r.events
              /\ exitStatus' = r.code
              /\ exitBy' = r.by
    /\ ckPc' = "exited"
    /\ UNCHANGED <<argVars, revision, ckArgs, fatalAt, tokensSeen>>
    /\ UNCHANGED <<tableVars, printVars, countVars, histVars, restVars>>

CkNext == CkParseToken \/ CkParseExit \/ CkParseReturn \/ CkRun

(***************************************************************************)
(* Colors: the singleton behind Colors::instance() and its color codes     *)
(***************************************************************************)
Threads == 1..MaxThreads

\* Colors: the members as the class initializes them
DefaultMembers ==
    [_primary |-> "ESC[;37m", _highlight |-> "ESC[;97m", _group |-> "ESC[;94m",
     _data |-> "ESC[;32m", _data2 |-> "ESC[;33m", _success |-> "ESC[;1;32m",
     _error |-> "ESC[;1;31m", _info |-> "ESC[;1;34m", _warning |-> "ESC[;1;33m",
     _reset |-> "ESC[0m", _ansiRed |-> "ESC[;31m", _ansiYellow |-> "ESC[;33m",
     _ansiGreen |-> "ESC[;32m", _ansiCyan |-> "ESC[;36m"]

\* the members of a Colors whose constructor has not run: indeterminate
RawMembers == [f \in DOMAIN DefaultMembers |-> "?"]

\* Colors::disable_colors: the members named in its chain of assignments that the class
\* has; _secondary is not one of them, _group, _data and _data2 are not in the chain
disable_colors(m) ==
    [f \in DOMAIN m |->
        IF f \in {"_primary", "_highlight", "_success", "_warning", "_error", "_info",
                  "_reset", "_ansiRed", "_ansiYellow", "_ansiGreen", "_ansiCyan"}
        THEN "" ELSE m[f]]

\* Colors::are_colors_enabled
are_colors_enabled(m) == m._ansiRed # "" \/ m._ansiGreen # ""

\* the style accessors, the ansi_* accessors and reset(): accessor -> the member returned
Accessors ==
    [primary |-> "_primary", highlight |-> "_highlight", group |-> "_group",
     data |-> "_data", data2 |-> "_data2", success |-> "_success", warning |-> "_warning",
     error |-> "_error", info |-> "_info", reset |-> "_reset", ansi_red |-> "_ansiRed",
     ansi_yellow |-> "_ansiYellow", ansi_green |-> "_ansiGreen", ansi_cyan |-> "_ansiCyan"]

\* what the accessor a of an object with the members m returns
accessor(m, a) == m[Accessors[a]]

\* no call of instance() has returned to the thread
NoRef == [obj |-> -1, state |-> "none"]

\* std::call_once running the callable again while another execution is under way
call_once_unsynchronized(f) == f # "done"

\* std::call_once: the callable is run by the caller that finds the flag untouched
call_once_may_run(f) == f = "idle"

\* no thread has called Colors::instance()
ColIdle ==
    /\ flag = "idle"
    /\ instancePtr = 0
    /\ heap = <<>>
    /\ thr = [t \in Threads |-> [pc |-> "out", obj |-> 0]]
    /\ returned = [t \in Threads |-> NoRef]
    /\ calls = [t \in Threads |-> 0]

\* a thread calls Colors::instance() and reaches std::call_once
CallInstance(t) ==
    /\ thr[t].pc = "out"
    /\ calls[t] < MaxCalls
    /\ calls' = [calls EXCEPT ![t] = @ + 1]
    /\ thr' = [thr EXCEPT ![t].pc = "call_once"]
    /\ UNCHANGED <<flag, instancePtr, heap, returned>>
    /\ UNCHANGED <<argVars, tableVars, printVars, countVars, histVars, ckVars>>
    /\ UNCHANGED <<treeVars, skelVars>>

\* std::call_once: the flag is untouched, the thread runs the callable
CallOnceRun(t) ==
    /\ thr[t].pc = "call_once"
    /\ call_once_may_run(flag)
    /\ flag' = "running"
    /\ thr' = [thr EXCEPT ![t].pc = "new"]
    /\ UNCHANGED <<instancePtr, heap, returned, calls>>
    /\ UNCHANGED <<argVars, tableVars, printVars, countVars, histVars, ckVars>>
    /\ UNCHANGED <<treeVars, skelVars>>

\* std::call_once: the callable has been run, the thread goes on
CallOncePass(t) ==
    /\ thr[t].pc = "call_once"
    /\ flag = "done"
    /\ thr' = [thr EXCEPT ![t].pc = "return"]
    /\ UNCHANGED <<flag, instancePtr, heap, returned, calls>>
    /\ UNCHANGED <<argVars, tableVars, printVars, countVars, histVars, ckVars>>
    /\ UNCHANGED <<treeVars, skelVars>>

\* new Colors(): the storage is there, the constructor runs
NewColors(t) ==
    /\ thr[t].pc = "new"
    /\ heap' = Append(heap, [constructed |-> FALSE, members |-> RawMembers, disabled |-> FALSE])
    /\ thr' = [thr EXCEPT ![t] = [pc |-> "constructor", obj |-> Len(heap) + 1]]
    /\ UNCHANGED <<flag, instancePtr, returned, calls>>
    /\ UNCHANGED <<argVars, tableVars, printVars, countVars, histVars, ckVars>>
    /\ UNCHANGED <<treeVars, skelVars>>

\* Colors() = default: the members get their initializers
ConstructColors(t) ==
    /\ thr[t].pc = "constructor"
    /\ heap' = [heap EXCEPT ![thr[t].obj] =
                   [constructed |-> TRUE, members |-> DefaultMembers, disabled |-> FALSE]]
    /\ thr' = [thr EXCEPT ![t].pc = "assign"]
    /\ UNCHANGED <<flag, instancePtr, returned, calls>>
    /\ UNCHANGED <<argVars, tableVars, printVars, countVars, histVars, ckVars>>
    /\ UNCHANGED <<treeVars, skelVars>>

\* instancePtr = std::unique_ptr<Colors>( ... )
AssignInstancePtr(t) ==
    /\ thr[t].pc = "assign"
    /\ instancePtr' = thr[t].obj
    /\ thr' = [thr EXCEPT ![t].pc = "end_once"]
    /\ UNCHANGED <<flag, heap, returned, calls>>
    /\ UNCHANGED <<argVars, tableVars, printVars, countVars, histVars, ckVars>>
    /\ UNCHANGED <<treeVars, skelVars>>

\* the callable returns: std::call_once sets the flag
CallOnceEnd(t) ==
    /\ thr[t].pc = "end_once"
    /\ flag' = "done"
    /\ thr' = [thr EXCEPT ![t].pc = "return"]
    /\ UNCHANGED <<instancePtr, heap, returned, calls>>
    /\ UNCHANGED <<argVars, tableVars, printVars, countVars, histVars, ckVars>>
    /\ UNCHANGED <<treeVars, skelVars>>

\* return *instancePtr;
ReturnInstance(t) ==
    /\ thr[t].pc = "return"
    /\ returned' = [returned EXCEPT ![t] =
                  [obj |-> instancePtr,
                   state |-> IF instancePtr = 0 THEN "null"
                             ELSE IF ~heap[instancePtr].constructed THEN "raw"
                             ELSE "constructed"]]
    /\ thr' = [thr EXCEPT ![t].pc = "out"]
    /\ UNCHANGED <<flag, instancePtr, heap, calls>>
    /\ UNCHANGED <<argVars, tableVars, printVars, countVars, histVars, ckVars>>
    /\ UNCHANGED <<treeVars, skelVars>>

\* c.disable_colors(); on the reference a call of instance() returned
DisableColors(t) ==
    /\ thr[t].pc = "out"
    /\ returned[t].state = "constructed"
    /\ ~heap[returned[t].obj].disabled
    /\ heap' = [heap EXCEPT ![returned[t].obj] =
                   [@ EXCEPT !.members = disable_colors(@), !.disabled = TRUE]]
    /\ UNCHANGED <<flag, instancePtr, thr, returned, calls>>
    /\ UNCHANGED <<argVars, tableVars, printVars, countVars, histVars, ckVars>>
    /\ UNCHANGED <<treeVars, skelVars>>

ColorsNext ==
    \E t \in Threads :
       \/ CallInstance(t)
       \/ CallOnceRun(t)
       \/ CallOncePass(t)
       \/ NewColors(t)
       \/ ConstructColors(t)
       \/ AssignInstancePtr(t)
       \/ CallOnceEnd(t)
       \/ ReturnInstance(t)
       \/ DisableColors(t)

(***************************************************************************)
(* ckshow: the tensor tree and the rows _fill_table_recursively makes of   *)
(* it. Node 0 is the root; the other nodes are numbered after their parent *)
(***************************************************************************)
TreeNodes == 1..Len(treeParent)

TreeTensors == 1..Len(tensorOwner)

\* node.name(): empty for the root, one name per node otherwise
node_name(node) == IF node = 0 THEN EmptyStr ELSE <<"n", Digits[treeRank[node] + 1]>>

\* tensorPtr->relative_name(nodeName)
relative_name(tensor) == <<"t", Digits[tensor + 1]>>

\* tensorPtr->shape().to_string() and tensorPtr->dtype().to_string()
shape_to_string(tensor) == <<"s", Digits[tensor + 1]>>

dtype_to_string(tensor) == <<"d">>

\* the members of the set s in the order of their keys, smallest first
RECURSIVE SortedBy(_, _)
SortedBy(s, key) ==
    IF s = {} THEN <<>>
    ELSE LET first == CHOOSE x \in s : \A y \in s : key[x] <= key[y]
         IN  <<first>> \o SortedBy(s \ {first}, key)

\* node.tensor_pointers(SortBy::NAME)
tensor_pointers(node) ==
    SortedBy({j \in TreeTensors : tensorOwner[j] = node}, [j \in TreeTensors |-> j])

\* node.subnode_pointers(SortBy::NAME)
subnode_pointers(node) ==
    SortedBy({k \in TreeNodes : treeParent[k] = node}, treeRank)

\* the row of the first loop: { shape, dtype, tensorName }
tensor_row(node, tensor) ==
    LET nodeName == node_name(node)
        tensorName == IF nodeName # EmptyStr
                      THEN nodeName \o <<"|">> \o relative_name(tensor)
                      ELSE relative_name(tensor)
    IN  <<shape_to_string(tensor), dtype_to_string(tensor), tensorName>>

\* the row of the second loop: { "", "", subnodePtr->name() }
subnode_row(subnode) == <<EmptyStr, EmptyStr, node_name(subnode)>>

RECURSIVE _fill_table_recursively(_)
RECURSIVE _fill_table_subnodes(_)
RECURSIVE _fill_table_row_after_subnode(_)
RECURSIVE _fill_table_rows_after(_)
\* the second loop, with the row of a subnode added after the rows of its subtree
_fill_table_rows_after(subnodes) ==
    IF subnodes = <<>> THEN <<>>
    ELSE _fill_table_row_after_subnode(Head(subnodes))
         \o <<subnode_row(Head(subnodes))>>
         \o _fill_table_rows_after(Tail(subnodes))

\* _fill_table_recursively adding the row of a subnode after the rows of its subtree
_fill_table_row_after_subnode(node) ==
    [p \in 1..Len(tensor_pointers(node)) |-> tensor_row(node, tensor_pointers(node)[p])]
    \o _fill_table_rows_after(subnode_pointers(node))

\* the second loop of _fill_table_recursively: the rows it adds, in order
_fill_table_subnodes(subnodes) ==
    IF subnodes = <<>> THEN <<>>
    ELSE <<subnode_row(Head(subnodes))>>
         \o _fill_table_recursively(Head(subnodes))
         \o _fill_table_subnodes(Tail(subnodes))

\* _fill_table_recursively(table, node): the rows it adds to the table, in order
_fill_table_recursively(node) ==
    [p \in 1..Len(tensor_pointers(node)) |-> tensor_row(node, tensor_pointers(node)[p])]
    \o _fill_table_subnodes(subnode_pointers(node))

\* no tensor tree
TreeIdle ==
    /\ treeParent = <<>>
    /\ treeRank = <<>>
    /\ tensorOwner = <<>>
    /\ treePc = "idle"

\* a tensor tree of n nodes under the root and m tensors, MaxTreeSize in all at most
TreeInit ==
    \E n \in 0..MaxTreeSize, m \in 0..MaxTreeSize :
       /\ n + m <= MaxTreeSize
       /\ treeParent \in {f \in [1..n -> 0..n] : \A k \in 1..n : f[k] < k}
       /\ treeRank \in Permutations(1..n)
       /\ tensorOwner \in [1..m -> 0..n]
       /\ treePc = "built"

\* _fill_table_recursively(table, tensorTree.root()): every add_row it makes
FillTable ==
    /\ treePc = "built"
    /\ LET rows == _fill_table_recursively(0)
       IN  /\ _rows' = _rows \o rows
           /\ _numberOfColumns' = max_row_size(_numberOfColumns, rows)
           /\ added' = added + Len(rows)
    /\ Modified
    /\ treePc' = "filled"
    /\ UNCHANGED <<_columnAlignments, _minColumnWidths, _maxColumnWidths, _colorizer>>
    /\ UNCHANGED <<treeParent, treeRank, tensorOwner>>
    /\ UNCHANGED <<argVars, histVars, ckVars, colVars, skelVars>>

\* std::cout << table
PrintTree ==
    /\ treePc = "filled"
    /\ print
    /\ UNCHANGED histVars

TreeNext == FillTable \/ PrintTree

(***************************************************************************)
(* ckskeletonize: main draws an index and writes messages[index]           *)
(***************************************************************************)
\* the mains of ckskeletonize/main.cpp: "sizeof" bounds the distribution by
\* numberOfMessages - 1, "literal" by the literal 8
Variants == {"sizeof", "literal"}

\* sizeof(messages) / sizeof(*messages): both arrays hold eight messages
numberOfMessages == 8

\* the largest value the std::uniform_int_distribution<int> is constructed with
distribution_max(v) == IF v = "sizeof" THEN numberOfMessages - 1 ELSE 8

\* no ckskeletonize process
SkelIdle ==
    /\ variant = "sizeof"
    /\ seed = 0
    /\ skelPc = "idle"
    /\ index = 0
    /\ written = "nothing"

\* main is entered: the generator is seeded by the clock or the random device
SkelInit ==
    /\ variant \in Variants
    /\ seed \in 0..MaxSeed
    /\ skelPc = "start"
    /\ index = 0
    /\ written = "nothing"

\* distribution(generator): any value of the closed range of the distribution
SkelDraw ==
    /\ skelPc = "start"
    /\ \E k \in 0..distribution_max(variant) : index' = k
    /\ skelPc' = "drawn"
    /\ UNCHANGED <<variant, seed, written>>
    /\ UNCHANGED <<argVars, tableVars, printVars, countVars, histVars, ckVars>>
    /\ UNCHANGED <<colVars, treeVars>>

\* std::cout << messages[index]: a read past the array is undefined, it gives any
\* bytes or ends the process
SkelWrite ==
    /\ skelPc = "drawn"
    /\ IF 0 <= index /\ index < numberOfMessages
       THEN written' = "message"
       ELSE written' \in {"garbage", "crash"}
    /\ skelPc' = "done"
    /\ UNCHANGED <<variant, seed, index>>
    /\ UNCHANGED <<argVars, tableVars, printVars, countVars, histVars, ckVars>>
    /\ UNCHANGED <<colVars, treeVars>>

SkelNext == SkelDraw \/ SkelWrite

RestIdle == ColIdle /\ TreeIdle /\ SkelIdle

ArgNext == Construct \/ CallValue \/ NextIteration \/ LoopExit

TableNext == AddScenarioRow \/ ClearTable \/ PrintTable

ReprintNext ==
    \/ ReprintAddRow
    \/ ReprintClear
    \/ ReprintSetAlignments
    \/ ReprintSetMinWidths
    \/ ReprintSetMaxWidths
    \/ ReprintSetColorizer
    \/ Reprint

FormatNext ==
    \/ AddFormatRow
    \/ SetAlignments
    \/ SetMinWidths
    \/ SetMaxWidths
    \/ SetColorizer
    \/ ClearTable
    \/ PrintTable

(***************************************************************************)
(* The tokens, read independently of the constructor                       *)
(***************************************************************************)
\* the token the current Argument was constructed on
Token == argv[consIdx]

\* a next token exists after the one the current Argument was constructed on
NextExists == consIdx + 1 < argc

NextToken == argv[consIdx + 1]

Dash1(t) == Len(t) >= 1 /\ t[1] = "-"

Dash2(t) == Len(t) >= 2 /\ t[1] = "-" /\ t[2] = "-"

HasEq(t) == \E k \in 1..Len(t) : t[k] = "="

\* a token of the form --name=value
EmbeddedForm(t) == Dash2(t) /\ HasEq(t)

\* t is n, then "=", then v, and n holds no "="
SplitsAs(t, n, v) == t = n \o <<"=">> \o v /\ ~HasEq(n)

(***************************************************************************)
(* Claims on Argument, under SpecArgument                                  *)
(***************************************************************************)
\* C1: for a token --name=value, whatever follows it, name() is "--name", every
\* value(i) call returns "value", and value(i) leaves the caller's i unchanged.
C1_EmbeddedValue ==
    (pc = "body" /\ EmbeddedForm(Token)) =>
        /\ SplitsAs(Token, name(arg), SubSeq(Token, Len(name(arg)) + 2, Len(Token)))
        /\ Dash2(name(arg))
        /\ valueCalls >= 1 =>
              /\ SplitsAs(Token, name(arg), ret)
              /\ i = iAtCall
              /\ i = consIdx

\* C1 witness: value(i) was called once on an embedded-value token that is followed
\* by a token which could have been a separate value, and returned something else
C1_Witness ==
    /\ pc = "body"
    /\ EmbeddedForm(Token)
    /\ valueCalls = 1
    /\ NextExists
    /\ ~Dash1(NextToken)
    /\ NextToken # EmptyStr
    /\ ret # EmptyStr
    /\ ret # NextToken

\* an option token without an embedded value, followed by a token that is no option
SeparateValueAt(k) ==
    /\ Dash1(argv[k])
    /\ ~EmbeddedForm(argv[k])
    /\ k + 1 < argc
    /\ ~Dash1(argv[k + 1])

\* C2: for an option token without embedded value followed by a token not starting
\* with '-', name() is the token, value(i) returns the next token and adds exactly 1
\* to i, and in the loop (one value(i) call) the value token is never parsed as an
\* Argument: the next Argument is constructed on the token after the value.
C2_SeparateValue ==
    /\ (pc = "body" /\ SeparateValueAt(consIdx)) =>
          /\ name(arg) = Token
          /\ valueCalls >= 1 => (ret = NextToken /\ i = iAtCall + 1)
          /\ valueCalls = 1 => i = consIdx + 1
    /\ \A k \in DOMAIN parsed :
          (SeparateValueAt(k) /\ parsed[k] = 1) =>
              /\ (k + 1) \notin DOMAIN parsed
              /\ (pc = "done" /\ k + 2 < argc) => (k + 2) \in DOMAIN parsed

\* C2 witness: tokens ["--a", "a", "a"], value(i) called once on "--a", and the
\* Argument of the current iteration is the positional third token
C2_Witness ==
    /\ pc = "body"
    /\ argc = 4
    /\ argv[1] = <<"-", "-", "a">>
    /\ argv[2] = <<"a">>
    /\ argv[3] = <<"a">>
    /\ consIdx = 3
    /\ DOMAIN parsed = {1, 3}
    /\ parsed[1] = 1
    /\ name(arg) = <<"a">>
    /\ ~is_option(arg)
    /\ ~has_value(arg)

\* C3: an option token without embedded value that is the last token, or is followed
\* by a token starting with '-', has an empty value and has_value() false; and the
\* constructor reads argv only at indices below argc.
C3_NoValueNoOverrun ==
    /\ (pc = "body" /\ Dash1(Token) /\ ~EmbeddedForm(Token)
          /\ (~NextExists \/ Dash1(NextToken))) =>
          /\ arg._value = EmptyStr
          /\ ~has_value(arg)
          /\ valueCalls >= 1 => ret = EmptyStr
    /\ argvReads \subseteq 0..(argc - 1)
    /\ pc = "body" => consIdx \in argvReads

\* C3 witness: the Argument of the last token, a flag, after a flag followed by a flag
C3_Witness ==
    /\ pc = "body"
    /\ argc = 3
    /\ consIdx = argc - 1
    /\ Dash2(argv[1])
    /\ Token = <<"-", "-", "a">>
    /\ DOMAIN parsed = {1, 2}
    /\ ~has_value(arg)
    /\ argvReads = {consIdx}

\* C4: a positional token (not starting with '-'), whatever follows it, has name()
\* equal to the whole token, an empty value, has_value() false and is_option() false.
C4_Positional ==
    (pc = "body" /\ ~Dash1(Token)) =>
        /\ name(arg) = Token
        /\ arg._value = EmptyStr
        /\ ~has_value(arg)
        /\ ~is_option(arg)
        /\ ~arg._valueIsEmbedded
        /\ valueCalls >= 1 => ret = EmptyStr

\* C4 witness: a positional token holding '=' and followed by a token that could be a value
C4_Witness ==
    /\ pc = "body"
    /\ ~Dash1(Token)
    /\ HasEq(Token)
    /\ NextExists
    /\ ~Dash1(NextToken)
    /\ NextToken # EmptyStr
    /\ valueCalls = 1

\* C5: was_value_consumed() is false exactly from the construction on a --name=...
\* token until the first value(i) call, true at all times for every other token,
\* and once true it never becomes false again for that Argument.
C5_Consumed ==
    /\ [](pc = "body" =>
            (was_value_consumed(arg) <=> ~(EmbeddedForm(Token) /\ valueCalls = 0)))
    /\ [][(pc = "body" /\ pc' = "body" /\ was_value_consumed(arg))
            => was_value_consumed(arg')]_vars

\* C5 witness: a second value(i) call on an embedded-value token, the value consumed
C5_Witness ==
    /\ pc = "body"
    /\ EmbeddedForm(Token)
    /\ valueCalls = 2
    /\ was_value_consumed(arg)

\* the names is(...) is asked about
Names == {Token, name(arg), <<"-", "-">>, <<"-", "a">>}

RowsWithColumn(c) == {r \in 1..Len(_rows) : Len(_rows[r]) >= c}

\* the longest cell text of column c (from 1) over all rows, 0 when there is none
Longest(c) ==
    LET lens == {Len(_rows[r][c]) : r \in RowsWithColumn(c)}
    IN  IF lens = {} THEN 0 ELSE CHOOSE m \in lens : \A x \in lens : x <= m

\* row r of a Table with default format: each cell a field of Longest(c) characters,
\* the text first and spaces after it, one space between two fields
ExpectedLine(r) ==
    LET row == _rows[r]
        k == Len(row)
        start[c \in 1..(k + 1)] == IF c = 1 THEN 0 ELSE start[c - 1] + Longest(c - 1) + 1
        len == IF k = 0 THEN 0 ELSE start[k + 1] - 1
        col(p) == CHOOSE c \in 1..k : start[c] < p /\ p <= start[c + 1]
    IN  [p \in 1..len |->
            IF p - start[col(p)] <= Len(row[col(p)])
            THEN row[col(p)][p - start[col(p)]]
            ELSE " "]

\* the lines of all rows, each ended by a newline
ExpectedOut ==
    LET upTo[r \in 0..Len(_rows)] ==
            IF r = 0 THEN <<>> ELSE upTo[r - 1] \o ExpectedLine(r) \o <<"\n">>
    IN  upTo[Len(_rows)]

\* entry c (from 1) of a width list, 0 when the list has none
EntryOr0(list, c) == IF c <= Len(list) THEN list[c] ELSE 0

\* max(minWidth, longest cell), clamped to maxWidth when maxWidth > 0
ExpectedWidth(c) ==
    LET mn == EntryOr0(_minColumnWidths, c)
        mx == EntryOr0(_maxColumnWidths, c)
        w == IF mn >= Longest(c) THEN mn ELSE Longest(c)
    IN  IF mx > 0 /\ mx < w THEN mx ELSE w

DefaultFormat ==
    /\ _columnAlignments = <<>>
    /\ _minColumnWidths = <<>>
    /\ _maxColumnWidths = <<>>
    /\ _colorizer = "none"

\* C8: with no width, alignment or colorizer set, every printed cell, the last of a
\* row included, is its text followed by spaces up to the longest text of its column
\* over all rows, and consecutive cells are separated by exactly one space.
C8_DefaultPadding == (prints >= 1 /\ DefaultFormat) => out = ExpectedOut

\* C8 witness: a printed table with default format whose rows differ in cell count
\* and where the last cell of a row is shorter than its column
C8_Witness ==
    /\ prints >= 1
    /\ DefaultFormat
    /\ Len(_rows) = 2
    /\ Len(_rows[1]) = 2
    /\ Len(_rows[2]) = 1
    /\ Len(_rows[2][1]) < Longest(1)
    /\ out # <<>>

\* C9: the width print computes for column c is max(minWidth[c], longest cell of c),
\* clamped to maxWidth[c] when maxWidth[c] > 0, missing entries counting as 0.
C9_ColumnWidth ==
    (prints >= 1 /\ _rows # <<>>) =>
        /\ Len(lastWidths) >= _numberOfColumns
        /\ \A c \in 1.._numberOfColumns : lastWidths[c] = ExpectedWidth(c)

\* C9 witness: a column whose longest cell and whose minimum both exceed its
\* positive maximum, and whose width is the maximum
C9_Witness ==
    /\ prints >= 1
    /\ _numberOfColumns >= 1
    /\ EntryOr0(_maxColumnWidths, 1) > 0
    /\ Longest(1) > _maxColumnWidths[1]
    /\ EntryOr0(_minColumnWidths, 1) > _maxColumnWidths[1]
    /\ lastWidths[1] = _maxColumnWidths[1]

\* the scenario: add_row({"a","bb","ccc"}); add_row({"dddd","e"}); print()
ScenarioPrinted ==
    /\ _rows = << <<<<"a">>, <<"b", "b">>, <<"c", "c", "c">>>>,
                 <<<<"d", "d", "d", "d">>, <<"e">>>> >>
    /\ prints >= 1

\* C10 as stated: "a", 4 spaces, "bb", 2 spaces, "ccc"; "dddd e", 2 trailing spaces
C10_AsStated ==
    ScenarioPrinted =>
        out = <<"a">> \o Spaces(4) \o <<"b", "b">> \o Spaces(2) \o <<"c", "c", "c", "\n">>
              \o <<"d", "d", "d", "d", " ", "e">> \o Spaces(2) \o <<"\n">>

\* C10, amended: the scenario writes two lines: "a", 4 spaces, "bb", 1 space, "ccc";
\* and "dddd e" with 1 trailing space (column 0 has width 4, column 1 width 2).
C10_Scenario ==
    ScenarioPrinted =>
        /\ out = <<"a">> \o Spaces(4) \o <<"b", "b">> \o Spaces(1) \o <<"c", "c", "c", "\n">>
                 \o <<"d", "d", "d", "d", " ", "e">> \o Spaces(1) \o <<"\n">>
        /\ lastWidths[1] = 4
        /\ lastWidths[2] = 2

\* C10 witness: the scenario's table, printed
C10_Witness == ScenarioPrinted /\ Len(out) = 20 /\ _numberOfColumns = 3

\* the largest cell count over the rows stored, 0 when there are none
MaxCellCount ==
    LET sizes == {Len(_rows[r]) : r \in 1..Len(_rows)}
    IN  IF sizes = {} THEN 0 ELSE CHOOSE m \in sizes : \A x \in sizes : x <= m

\* C11: after any sequence of construction, add_row and clear, number_of_columns()
\* is the largest cell count over the stored rows (0 without rows), number_of_rows()
\* is the number of rows put in since the last clear, and empty() holds iff
\* number_of_rows() is 0.
C11_Capacity ==
    /\ number_of_columns = MaxCellCount
    /\ number_of_rows = added
    /\ empty <=> (number_of_rows = 0)

\* C11 witness: a row of one cell, a row of two cells, then a row without cells
C11_Witness ==
    /\ number_of_rows = 3
    /\ Len(_rows[1]) = 1
    /\ Len(_rows[2]) = 2
    /\ Len(_rows[3]) = 0
    /\ number_of_columns = 2
    /\ ~empty

\* the positions of the newlines in the text written
NewlineAt == {p \in 1..Len(out) : out[p] = "\n"}

\* the position of the r-th newline, 0 for r = 0
NewlinePos(r) ==
    IF r = 0 THEN 0
    ELSE CHOOSE p \in NewlineAt : Cardinality({q \in NewlineAt : q <= p}) = r

\* the r-th line of the text written, without its newline
Line(r) == SubSeq(out, NewlinePos(r - 1) + 1, NewlinePos(r) - 1)

IsFillOrColor(ch) == ch \in {" ", "D", "E", "P", "R"}

\* a line without the fill, the separators and the colour codes
TextOf(line) == SelectSeq(line, LAMBDA ch : ~IsFillOrColor(ch))

RECURSIVE Flat(_)
\* the cell texts of a row, one after the other
Flat(row) == IF row = <<>> THEN <<>> ELSE Head(row) \o Flat(Tail(row))

\* C12: print on a table without rows writes nothing; otherwise it writes exactly one
\* newline-terminated line per stored row, in insertion order.
C12_OneLinePerRow ==
    prints >= 1 =>
        /\ _rows = <<>> => out = <<>>
        /\ Cardinality(NewlineAt) = Len(_rows)
        /\ out # <<>> => out[Len(out)] = "\n"
        /\ \A r \in 1..Len(_rows) : TextOf(Line(r)) = Flat(_rows[r])

\* C12 witness: a printed table of two different rows, the first one without cells
C12_Witness ==
    /\ prints >= 1
    /\ Len(_rows) = 2
    /\ _rows[1] = <<>>
    /\ _rows[2] # <<>>
    /\ Line(1) = <<>>
    /\ Line(2) # <<>>

\* the cells of the rows before row r
CellsBefore(r) == TotalCells(SubSeq(_rows, 1, r - 1))

\* the colorizer call made for the cell of column c (from 1) of row r
CallFor(r, c) == colorCalls[CellsBefore(r) + c]

\* row r as the results of the colorizer calls, one space between two results
ColorizedLine(r) ==
    LET upTo[c \in 0..Len(_rows[r])] ==
            IF c = 0 THEN <<>>
            ELSE upTo[c - 1] \o (IF c > 1 THEN <<" ">> ELSE <<>>)
                 \o colorize(_colorizer, CallFor(r, c).column, CallFor(r, c).text)
    IN  upTo[Len(_rows[r])]

\* the lines of all rows as the results of the colorizer calls
ColorizedOut ==
    LET upTo[r \in 0..Len(_rows)] ==
            IF r = 0 THEN <<>> ELSE upTo[r - 1] \o ColorizedLine(r) \o <<"\n">>
    IN  upTo[Len(_rows)]

IsColorCode(ch) == ch \in {"D", "E", "P", "R"}

HasColorCode(text) == \E k \in 1..Len(text) : IsColorCode(text[k])

\* C13: with a colorizer installed, print calls it exactly once per cell, in order,
\* with the column index of the cell and its text already padded to the column width
\* (a width computed from the plain texts), and writes the results of the calls in
\* place of the cells; nothing colorized is stored in the table.
C13_Colorizer ==
    (prints >= 1 /\ _colorizer # "none") =>
        /\ Len(colorCalls) = TotalCells(_rows)
        /\ \A r \in 1..Len(_rows) : \A c \in 1..Len(_rows[r]) :
              /\ CallFor(r, c).column = c - 1
              /\ ~HasColorCode(CallFor(r, c).text)
              /\ TextOf(CallFor(r, c).text) = _rows[r][c]
              /\ Len(CallFor(r, c).text) = Max(ExpectedWidth(c), Len(_rows[r][c]))
              /\ ~HasColorCode(_rows[r][c])
        /\ out = ColorizedOut
        /\ \A c \in 1.._numberOfColumns : lastWidths[c] = ExpectedWidth(c)

\* C13 witness: a colorized print of a row of two cells, the first cell padded
C13_Witness ==
    /\ prints >= 1
    /\ _colorizer = "ansi"
    /\ _rows = << <<<<"a">>, <<"b", "b", "b">>>> >>
    /\ _minColumnWidths = <<2>>
    /\ colorCalls = <<[column |-> 0, text |-> <<"a", " ">>],
                      [column |-> 1, text |-> <<"b", "b", "b">>]>>
    /\ out = <<"D", "a", " ", "R", " ", "E", "b", "b", "b", "R", "\n">>

\* the length of the field of the cell of column c (from 1) of row r: the column
\* width, or the text length when the text is longer
FieldLen(r, c) == Max(lastWidths[c], Len(_rows[r][c]))

\* the characters of line r before the field of column c (from 1)
FieldStart(r, c) ==
    LET upTo[k \in 1..c] == IF k = 1 THEN 0 ELSE upTo[k - 1] + FieldLen(r, k - 1) + 1
    IN  upTo[c]

\* the field of the cell of column c of row r in the text written without colorizer
Field(r, c) == SubSeq(Line(r), FieldStart(r, c) + 1, FieldStart(r, c) + FieldLen(r, c))

\* the alignment set for column c (from 1), if any
AlignmentSet(c) == IF c <= Len(_columnAlignments) THEN _columnAlignments[c] ELSE "unset"

\* C14: for a cell of length L in a column of width W >= L: LEFT puts the W-L spaces
\* after the text, RIGHT puts them before it, CENTER puts floor((W-L)/2) before and
\* the rest after; a column without alignment entry is LEFT-aligned.
C14_Alignment ==
    (prints >= 1 /\ _colorizer = "none") =>
        \A r \in 1..Len(_rows) : \A c \in 1..Len(_rows[r]) :
            LET text == _rows[r][c]
                W == lastWidths[c]
                L == Len(text)
            IN  W >= L =>
                   /\ AlignmentSet(c) \in {"LEFT", "unset"} =>
                          Field(r, c) = text \o Spaces(W - L)
                   /\ AlignmentSet(c) = "RIGHT" =>
                          Field(r, c) = Spaces(W - L) \o text
                   /\ AlignmentSet(c) = "CENTER" =>
                          /\ Field(r, c) = Spaces((W - L) \div 2) \o text
                                           \o Spaces((W - L) - ((W - L) \div 2))
                          /\ ((W - L) - ((W - L) \div 2)) - ((W - L) \div 2) \in {0, 1}

\* C14 witness: a centred cell of length 1 in a column of width 4, printed with one
\* space before and two after
C14_Witness ==
    /\ prints >= 1
    /\ _colorizer = "none"
    /\ _columnAlignments = <<"CENTER">>
    /\ _rows = << <<<<"a">>>> >>
    /\ lastWidths = <<4>>
    /\ out = <<" ", "a", " ", " ", "\n">>

\* C15: a row with k cells, k smaller than number_of_columns(), is printed with its
\* own k cells and k-1 separators and nothing for the missing trailing columns, its
\* cells still padded to the widths of columns 0..k-1 computed over all rows.
C15_RaggedRow ==
    (prints >= 1 /\ _colorizer = "none") =>
        \A r \in 1..Len(_rows) :
            LET k == Len(_rows[r])
            IN  k < number_of_columns =>
                   /\ Len(Line(r)) = IF k = 0 THEN 0 ELSE FieldStart(r, k) + FieldLen(r, k)
                   /\ \A c \in 1..k :
                         /\ lastWidths[c] = ExpectedWidth(c)
                         /\ Len(Field(r, c)) = Max(ExpectedWidth(c), Len(_rows[r][c]))
                         /\ TextOf(Field(r, c)) = _rows[r][c]
                         /\ c > 1 => Line(r)[FieldStart(r, c)] = " "

\* C15 witness: rows {"bbb", "a"} and {"a"}: the second line is "a" padded to the
\* width 3 of column 0, and nothing else
C15_Witness ==
    /\ prints >= 1
    /\ _colorizer = "none"
    /\ _rows = << <<<<"b", "b", "b">>, <<"a">>>>, <<<<"a">>>> >>
    /\ number_of_columns = 2
    /\ _columnAlignments = <<>>
    /\ Line(2) = <<"a", " ", " ">>

\* a width list with every non-positive entry replaced by 0
NonPositiveAs0(list) == [k \in 1..Len(list) |-> IF list[k] <= 0 THEN 0 ELSE list[k]]

\* max(minWidth, longest cell) clamped to maxWidth, the entries of the lists that are
\* missing, zero or negative all counting as "none"
DefaultedWidth(c) ==
    LET mn == EntryOr0(NonPositiveAs0(_minColumnWidths), c)
        mx == EntryOr0(NonPositiveAs0(_maxColumnWidths), c)
        w == IF mn >= Longest(c) THEN mn ELSE Longest(c)
    IN  IF mx > 0 /\ mx < w THEN mx ELSE w

\* C16: with min/max width lists holding zero or negative entries, or shorter or
\* longer than the number of columns, print completes and writes what it writes with
\* every non-positive entry replaced by 0; a cell of a column whose width is <= 0 is
\* written verbatim, still passed through the colorizer.
C16_Misconfiguration ==
    prints >= 1 =>
        /\ out = print_text(_rows, _columnAlignments, NonPositiveAs0(_minColumnWidths),
                            NonPositiveAs0(_maxColumnWidths), _colorizer)
        /\ \A r \in 1..Len(_rows) : \A c \in 1..Len(_rows[r]) :
              /\ Max(lastWidths[c], 0) = DefaultedWidth(c)
              /\ lastWidths[c] <= 0 =>
                    /\ _colorizer = "none" => Field(r, c) = _rows[r][c]
                    /\ _colorizer # "none" =>
                          CallFor(r, c) = [column |-> c - 1, text |-> _rows[r][c]]

\* C16 witness: a colorized print of an empty cell in a column of width 0, with a
\* list of maximum widths longer than the row and holding a negative entry
C16_Witness ==
    /\ prints >= 1
    /\ _colorizer = "ansi"
    /\ _rows = << <<EmptyStr>> >>
    /\ _maxColumnWidths = <<-1, 0>>
    /\ lastWidths = <<0>>
    /\ out = <<"D", "R", "\n">>

\* the length of line r when every cell is padded to the width its column has over
\* the rows stored now
FreshLineLen(r) ==
    LET k == Len(_rows[r])
        upTo[c \in 0..k] ==
            IF c = 0 THEN 0
            ELSE upTo[c - 1] + (IF c > 1 THEN 1 ELSE 0)
                 + Max(ExpectedWidth(c), Len(_rows[r][c]))
    IN  upTo[k]

\* C17: column widths are never cached: whatever add_row, clear, set_* and print
\* calls came before, a print writes the rows and uses the widths of the table as it
\* is at that call, so every earlier row is padded again to the width of a longer
\* cell added since the print before.
C17_NoCachedWidths ==
    prints >= 1 =>
        /\ Len(lastWidths) >= number_of_columns
        /\ \A c \in 1..number_of_columns : lastWidths[c] = ExpectedWidth(c)
        /\ out = print_text(_rows, _columnAlignments, _minColumnWidths, _maxColumnWidths,
                            _colorizer)
        /\ _colorizer = "none" => \A r \in 1..Len(_rows) : Len(Line(r)) = FreshLineLen(r)

\* C17 witness: {"a"} was printed, then {"bbb"} was added, and the print after it
\* writes "a" padded to 3
C17_Witness ==
    /\ printedBefore
    /\ prints >= 1
    /\ _colorizer = "none"
    /\ _minColumnWidths = <<>>
    /\ _rows = << <<<<"a">>>>, <<<<"b", "b", "b">>>> >>
    /\ out = <<"a", " ", " ", "\n", "b", "b", "b", "\n">>

(***************************************************************************)
(* ckshow: the command line as the help text describes it, read            *)
(* independently of the constructor                                        *)
(***************************************************************************)
\* the options the help text gives a value to
ValueOptions == {Opt.n, Opt.name, Opt.p, Opt.prefix, Opt.d, Opt.depth, Opt.color}

\* the options the help text gives no value to
PlainOptions ==
    {Opt.m, Opt.metadata, Opt.thumbnail, Opt.u, Opt.human, Opt.b, Opt.basic, Opt.j, Opt.json,
     Opt.nc, Opt.no_color, Opt.h, Opt.help, Opt.v, Opt.version}

\* the options of the revision of ckshow that runs
OptionsOf(rev) ==
    IF rev = "args" THEN ValueOptions \cup PlainOptions
    ELSE (ValueOptions \cup PlainOptions) \ {Opt.color}

IsOptionToken(k) == Len(argv[k]) >= 1 /\ argv[k][1] = "-"

HasEmbeddedValue(k) ==
    /\ Len(argv[k]) >= 2
    /\ argv[k][1] = "-"
    /\ argv[k][2] = "-"
    /\ \E p \in 1..Len(argv[k]) : argv[k][p] = "="

\* the option name of the token at k: the text before the first '=' of a long option
OptionName(k) ==
    IF HasEmbeddedValue(k)
    THEN LET p == CHOOSE q \in 1..Len(argv[k]) :
                     argv[k][q] = "=" /\ \A j \in 1..(q - 1) : argv[k][j] # "="
         IN  SubSeq(argv[k], 1, p - 1)
    ELSE argv[k]

\* the token at k is the value of the option before it
IsValueToken(k) ==
    /\ k >= 2
    /\ ~IsOptionToken(k)
    /\ IsOptionToken(k - 1)
    /\ ~HasEmbeddedValue(k - 1)
    /\ OptionName(k - 1) \in ValueOptions \cap OptionsOf(revision)

IsPositional(k) == ~IsOptionToken(k) /\ ~IsValueToken(k)

\* the token at k is one of the three user errors
IsUserError(k) ==
    \/ IsOptionToken(k) /\ OptionName(k) \notin OptionsOf(revision)
    \/ /\ IsOptionToken(k)
       /\ HasEmbeddedValue(k)
       /\ OptionName(k) \in PlainOptions
    \/ IsPositional(k) /\ \E j \in 1..(k - 1) : IsPositional(j)

\* C18: an unknown option name, an embedded value on an option that takes none, or a
\* second positional argument is reported as a fatal error at the token where it
\* occurs: once the constructor is over a fatal error was raised at that token or
\* before it, the exit code is not zero, and no iteration began on a later token
C18_AsStated ==
    ckPc # "idle" =>
        \A k \in 1..(argc - 1) :
            IsUserError(k) =>
                /\ \A j \in tokensSeen : j <= k
                /\ ckPc \in {"run", "exited"} =>
                      /\ fatalAt \in 1..k
                      /\ exitBy = "fatal_error"
                      /\ exitStatus >= 1

\* the exit codes a caller may hand to Messages::fatal_error
ExitCodes == -2..3

\* C19: ckshow exits with 0 on success and with 1 on any fatal error: fatal_error ends
\* the process, with exitCode when exitCode >= 1 and with 1 otherwise, never with 0;
\* every fatal path of ckshow ends with 1; every other end of the process is with 0
C19_ExitCodes ==
    /\ \A c \in ExitCodes :
          /\ fatal_exit_code(c) >= 1
          /\ c >= 1 => fatal_exit_code(c) = c
          /\ c < 1 => fatal_exit_code(c) = 1
    /\ exitBy = "fatal_error" => ckPc = "exited" /\ exitStatus = 1
    /\ exitBy \in {"return", "exit"} => ckPc = "exited" /\ exitStatus = 0
    /\ ckPc = "exited" => exitBy \in {"fatal_error", "return", "exit"}

\* run ended by fatal_read_error on a file that was named, after a parse without error
C19_Witness ==
    /\ ckPc = "exited"
    /\ exitBy = "fatal_error"
    /\ exitStatus = 1
    /\ fatalAt = 0
    /\ ckArgs.filename # EmptyStr
    /\ trace[Len(trace)] = "stderr"

\* the number of calls of Colors::disable_colors in the trace
Toggles == Cardinality({p \in 1..Len(trace) : trace[p] = "disable_colors"})

\* C20: in every execution of ckshow disable_colors is called at most once, and
\* nothing was written on stdout or stderr before the call
C20_ToggleOnceFirst ==
    /\ Toggles <= 1
    /\ \A p \in 1..Len(trace) :
          trace[p] = "disable_colors" =>
             \A q \in 1..(p - 1) : trace[q] \notin {"stdout", "stderr"}

\* colors disabled by --nc, then the output of run
C20_Witness ==
    /\ ckPc = "exited"
    /\ ckArgs.when_color = When.never
    /\ Toggles = 1
    /\ Len(trace) >= 2
    /\ trace[1] = "disable_colors"
    /\ trace[2] \in {"stdout", "stderr"}

(***************************************************************************)
(* Colors                                                                  *)
(***************************************************************************)
\* C21: Colors::instance() is thread-safe: under any interleaving of the callers at
\* most one Colors object is constructed, and every call that returned gave a
\* reference to that one object, which instancePtr owns, after its constructor ended
C21_OneInstance ==
    /\ Len(heap) <= 1
    /\ \A t \in Threads :
          returned[t] # NoRef =>
             /\ Len(heap) = 1
             /\ returned[t].obj = 1
             /\ returned[t].obj = instancePtr
             /\ returned[t].state = "constructed"
             /\ heap[1].constructed

\* two threads called instance() while the flag was not set yet, one ran the
\* callable, both got the object
C21_Witness ==
    \E t, u \in Threads :
       /\ t # u
       /\ calls[t] = 1
       /\ calls[u] = 1
       /\ thr[t].obj = 1
       /\ thr[u].obj = 0
       /\ returned[t].state = "constructed"
       /\ returned[u].state = "constructed"

\* C22: disable_colors() disables all colors: after it every style accessor, every
\* ansi_* accessor and reset() returns the empty string and are_colors_enabled() is
\* false; colors are enabled initially and stay enabled until disable_colors();
\* are_colors_enabled() == false implies that every accessor returns the empty string
C22_AsStated ==
    \A o \in 1..Len(heap) :
       heap[o].constructed =>
          /\ heap[o].disabled =>
                /\ \A a \in DOMAIN Accessors : accessor(heap[o].members, a) = ""
                /\ ~are_colors_enabled(heap[o].members)
          /\ ~heap[o].disabled => are_colors_enabled(heap[o].members)
          /\ ~are_colors_enabled(heap[o].members) =>
                \A a \in DOMAIN Accessors : accessor(heap[o].members, a) = ""

\* the short spelling the help text documents together with a long one
ShortSpelling(tok) ==
    CASE tok = Opt.name -> Opt.n
      [] tok = Opt.prefix -> Opt.p
      [] tok = Opt.depth -> Opt.d
      [] tok = Opt.metadata -> Opt.m
      [] tok = Opt.human -> Opt.u
      [] tok = Opt.basic -> Opt.b
      [] tok = Opt.json -> Opt.j
      [] tok = Opt.help -> Opt.h
      [] tok = Opt.version -> Opt.v
      [] tok = Opt.no_color -> Opt.nc
      [] OTHER -> tok

\* the command line with every long spelling replaced by its short one
Shortened(av) == [k \in DOMAIN av |-> IF k = 0 THEN av[k] ELSE ShortSpelling(av[k])]

RECURSIVE ParseFrom(_, _, _, _, _)
\* the whole loop of the constructor from index idx on: the members at its end and the
\* fatal error that ended it, if any
ParseFrom(rev, a, idx, n, av) ==
    IF idx >= n THEN [args |-> a, fatal |-> "none"]
    ELSE LET r == IF rev = "args" THEN parse_token(a, idx, n, av)
                  ELSE parse_token_nextarg(a, idx, n, av)
         IN  IF r.fatal # "none" THEN [args |-> r.args, fatal |-> r.fatal]
             ELSE ParseFrom(rev, r.args, r.i + 1, n, av)

\* the constructor is over
ParseOver == ckPc \in {"run", "exited"}

\* C23: the short and the long spellings documented together are interchangeable: the
\* command line with -n, -p, -d, -m, -u, -b, -j, -h, -v, --nc in the place of the long
\* spellings is parsed to the same CkShowArgs, and ends with the same error or none
C23_AsStated ==
    ParseOver =>
       LET short == ParseFrom(revision, DefaultArgs, 1, argc, Shortened(argv))
       IN  /\ short.args = ckArgs
           /\ (short.fatal # "none") <=> (fatalAt # 0)

\* the Argument the loop constructed on index k
ArgumentAt(k) == Argument(k, argc, argv)

\* the loop as documented: value(i) is called at most once on an Argument, and only
\* on an option
DocumentedUse ==
    \A k \in DOMAIN parsed :
       /\ parsed[k] <= 1
       /\ parsed[k] = 1 => is_option(ArgumentAt(k))

\* the token at k was returned by value(i) of the Argument before it
ReturnedAsValue(k) ==
    /\ (k - 1) \in DOMAIN parsed
    /\ parsed[k - 1] >= 1
    /\ ~ArgumentAt(k - 1)._valueIsEmbedded
    /\ value_result(ArgumentAt(k - 1)) = argv[k]

\* C24: in the documented parse loop value(i) advances i only past a token that it
\* returned as the value: every token the loop has gone past was constructed as an
\* Argument of its own or was returned as the value of the option right before it
C24_AsStated ==
    DocumentedUse =>
       \A k \in 1..(argc - 1) :
          k < i => k \in DOMAIN parsed \/ ReturnedAsValue(k)

\* text occurs in field, whole and in one piece
OccursIn(text, field) ==
    \E s \in 0..(Len(field) - Len(text)) : SubSeq(field, s + 1, s + Len(text)) = text

\* the characters of line r when every cell takes max(L, W) of them
UntruncatedLineLen(r) ==
    LET upTo[c \in 0..Len(_rows[r])] ==
            IF c = 0 THEN 0
            ELSE upTo[c - 1] + (IF c > 1 THEN 1 ELSE 0)
                 + Max(Len(_rows[r][c]), lastWidths[c])
    IN  upTo[Len(_rows[r])]

\* C25: print never truncates cell text: a cell of length L in a column of final width
\* W is written with exactly max(L, W) characters before colorization, its full text
\* among them, so a cell longer than a clamped width overflows the column
C25_NoTruncation ==
    prints >= 1 =>
        \A r \in 1..Len(_rows) :
            /\ _colorizer = "none" => Len(Line(r)) = UntruncatedLineLen(r)
            /\ \A c \in 1..Len(_rows[r]) :
                  LET field == IF _colorizer = "none" THEN Field(r, c)
                                 ELSE CallFor(r, c).text
                  IN  /\ Len(field) = Max(Len(_rows[r][c]), lastWidths[c])
                      /\ OccursIn(_rows[r][c], field)

\* C25 witness: a cell of three characters printed in a column clamped to two
C25_Witness ==
    /\ prints >= 1
    /\ Len(_rows) = 1
    /\ _rows[1] = <<<<"b", "b", "b">>>>
    /\ _maxColumnWidths = <<2>>
    /\ lastWidths = <<2>>
    /\ _colorizer = "none"
    /\ out = <<"b", "b", "b", "\n">>

\* the configuration of a Table
Configuration == <<_columnAlignments, _minColumnWidths, _maxColumnWidths, _colorizer>>

\* C26: print leaves the rows, number_of_columns, the alignments, the minimum and the
\* maximum widths and the colorizer unchanged; clear() empties the rows and resets
\* number_of_columns to 0 and leaves the configuration unchanged, as does add_row
\* after it, so rows added after clear() are printed with the configuration set before
C26_Frame ==
    /\ [][/\ prints' > prints => UNCHANGED tableVars
          /\ (added > 0 /\ added' = 0) =>
                /\ _rows' = <<>>
                /\ _numberOfColumns' = 0
                /\ UNCHANGED Configuration
          /\ (cleared /\ added' = added + 1) => UNCHANGED Configuration]_vars
    /\ []((cleared /\ prints >= 1) =>
             out = print_text(_rows, _columnAlignments, _minColumnWidths,
                              _maxColumnWidths, _colorizer))

\* C26 witness: a minimum width was set, the table was cleared, a row added after the
\* clear is printed in a field of that width
C26_Witness ==
    /\ cleared
    /\ prints >= 1
    /\ _minColumnWidths = <<4>>
    /\ _rows = <<<<<<"a">>>>>>
    /\ added = 1
    /\ out = <<"a", " ", " ", " ", "\n">>

(***************************************************************************)
(* ckshow: the rows of the tensor tree, read from the table                *)
(***************************************************************************)
RECURSIVE InSubtree(_, _)
\* node is below the node top, or is top
InSubtree(node, top) ==
    \/ node = top
    \/ node # 0 /\ InSubtree(treeParent[node], top)

\* the position of the row of the tensor in the table, 0 when there is none
TensorRowAt(tensor) ==
    LET at == {p \in 1..Len(_rows) :
                  _rows[p] = tensor_row(tensorOwner[tensor], tensor)}
    IN  IF Cardinality(at) = 1 THEN CHOOSE p \in at : TRUE ELSE 0

\* the position of the synthetic row of the node in the table, 0 when there is none;
\* the root has no row and stands before the first one
NodeRowAt(node) ==
    LET at == {p \in 1..Len(_rows) : _rows[p] = <<EmptyStr, EmptyStr, node_name(node)>>}
    IN  IF node # 0 /\ Cardinality(at) = 1 THEN CHOOSE p \in at : TRUE ELSE 0

\* the tensors and the nodes of the subtree of top, top itself left out
SubtreeSize(top) ==
    Cardinality({j \in TreeTensors : InSubtree(tensorOwner[j], top)})
    + Cardinality({k \in TreeNodes : k # top /\ InSubtree(k, top)})

\* C27: flattening the tensor tree adds exactly one 3-cell row per tensor and exactly
\* one row {"", "", name} per node other than the root, in depth-first pre-order: the
\* rows of a node's own tensors come first, and the row of a subnode comes right
\* before all the rows of the subtree of that subnode
C27_PreOrder ==
    treePc = "filled" =>
        /\ Len(_rows) = Len(tensorOwner) + Len(treeParent)
        /\ \A p \in 1..Len(_rows) : Len(_rows[p]) = 3
        /\ \A j \in TreeTensors : TensorRowAt(j) # 0
        /\ \A k \in TreeNodes : NodeRowAt(k) # 0
        /\ \A k \in TreeNodes \cup {0} :
              LET own == {j \in TreeTensors : tensorOwner[j] = k}
                  first == NodeRowAt(k) + 1
                  last == NodeRowAt(k) + SubtreeSize(k)
              IN  /\ \A j \in own : TensorRowAt(j) \in first..(first + Cardinality(own) - 1)
                  /\ \A j \in TreeTensors :
                        InSubtree(tensorOwner[j], k) <=> TensorRowAt(j) \in first..last
                  /\ \A s \in TreeNodes :
                        (s # k /\ InSubtree(s, k)) <=> NodeRowAt(s) \in first..last

\* C27 witness: a tensor in the root, a subnode of the root, and a node with a tensor
\* below that subnode
C27_Witness ==
    /\ treePc = "filled"
    /\ Len(treeParent) >= 2
    /\ \E k, s \in TreeNodes :
          /\ treeParent[k] = 0
          /\ treeParent[s] = k
          /\ \E a, b \in TreeTensors : tensorOwner[a] = 0 /\ tensorOwner[b] = s
          /\ NodeRowAt(s) > NodeRowAt(k)
    /\ Len(_rows) = 4

\* what the accessors other than was_value_consumed() answer for an Argument,
\* is(...) asked for each token of the command line and for the name itself
Observed(a) ==
    [name |-> name(a),
     has_value |-> has_value(a),
     is_option |-> is_option(a),
     is |-> {n \in {argv[k] : k \in 0..(argc - 1)} \cup {name(a)} : is(a, n)},
     value |-> value_result(a)]

\* C28: value(i) changes nothing observable about an Argument except the consumed
\* flag: after any number of value(i) calls name(), has_value(), is_option(),
\* is(...) and the string value(i) returns are those of the freshly constructed
\* Argument, and every call returned that same string
C28_ValueFrame ==
    consIdx >= 1 =>
        /\ Observed(arg) = Observed(ArgumentAt(consIdx))
        /\ valueCalls >= 1 => ret = value_result(ArgumentAt(consIdx))

\* value(i) was called twice on an option with a value, which is now consumed
C28_Witness ==
    /\ pc = "body"
    /\ valueCalls = 2
    /\ is_option(arg)
    /\ has_value(arg)
    /\ was_value_consumed(arg)
    /\ ret = value_result(arg)
    /\ ret # EmptyStr

\* C29: the parse loop of ckshow terminates for every argument vector: an
\* iteration that does not end in a fatal error leaves i greater by 1 or 2, argv is
\* dereferenced only at indices below argc while i never passes argc + 1, the loop
\* is eventually left, and it is left with the tokens exhausted or by a fatal error
C29_Terminates ==
    /\ [][(ckPc = "parse" /\ ckPc' = "parse") => i' \in {i + 1, i + 2}]_vars
    /\ [](ckPc # "idle" =>
            /\ \A k \in argvReads : 0 <= k /\ k < argc
            /\ i <= argc + 1
            /\ ckPc # "parse" => (fatalAt # 0 \/ i >= argc))
    /\ <>(ckPc # "parse")

\* an option taking a value was the last token: the loop was left with i = argc + 1,
\* no fatal error, and the last token was the highest index read
C29_Witness ==
    /\ ckPc = "exited"
    /\ fatalAt = 0
    /\ argc >= 3
    /\ i = argc + 1
    /\ TakesValue(argv[argc - 1])
    /\ argvReads = 1..(argc - 1)

\* C30: in ckskeletonize the index used to select the message is within the bounds
\* of the messages array for every possible draw: 0 <= index < numberOfMessages
C30_AsStated ==
    skelPc \in {"drawn", "done"} => (0 <= index /\ index < numberOfMessages)

InitArgument == ArgInit /\ TableInit /\ CkIdle /\ RestIdle

InitTable == NoArgs /\ TableInit /\ CkIdle /\ RestIdle

InitTableRows == NoArgs /\ CkIdle /\ RestIdle /\ \E rows \in CtorRows : Table(rows)

\* the parse loop over an argument vector
SpecArgument == InitArgument /\ [][ArgNext]_vars

\* a Table with its default format
SpecTable == InitTableRows /\ [][TableNext]_vars

\* a Table with alignments, widths and a colorizer
SpecTableFormat == InitTable /\ [][FormatNext]_vars

\* a Table printed, modified and printed again
SpecTableReprint == InitTable /\ [][ReprintNext]_vars

InitCkShow == CkInit /\ TableInit /\ RestIdle

\* ckshow started on a command line of at most MaxCkArgs tokens
SpecCkShow == InitCkShow /\ [][CkNext]_vars

\* ckshow with every enabled step eventually taken: the process is not suspended
\* for ever
SpecCkShowFair == InitCkShow /\ [][CkNext]_vars /\ WF_vars(CkNext)

InitColors == NoArgs /\ TableInit /\ CkIdle /\ ColIdle /\ TreeIdle /\ SkelIdle

\* MaxThreads threads calling Colors::instance() and disable_colors()
SpecColors == InitColors /\ [][ColorsNext]_vars

InitTree == NoArgs /\ TableInit /\ CkIdle /\ ColIdle /\ TreeInit /\ SkelIdle

\* a tensor tree flattened into the rows of a Table
SpecTree == InitTree /\ [][TreeNext]_vars

InitSkeletonize == NoArgs /\ TableInit /\ CkIdle /\ ColIdle /\ TreeIdle /\ SkelInit

\* ckskeletonize
SpecSkeletonize == InitSkeletonize /\ [][SkelNext]_vars

====
